---- MODULE Spec2Model ----
(***************************************************************************)
(* Model of the document-conversion backend in src/app.py: the format      *)
(* registry (allowed_file, get_input_format, map_output_format), the       *)
(* per-file pipeline (preprocess_special_formats, convert_file_with_pandoc,*)
(* validate_output_file, organize_media_files, fix_image_paths_in_file)    *)
(* and the batch loop of convert_files.                                    *)
(*                                                                         *)
(* Text is modelled at character level: a Python str is a sequence of      *)
(* one-character strings; a code point outside ASCII is written as the     *)
(* atom "U+XXXX".  Join turns a character sequence into a TLA+ string so   *)
(* that the dict literals of the source can be used as lookup tables.      *)
(* A message built with an f-string is a sequence of text pieces.          *)
(***************************************************************************)
EXTENDS Integers, Sequences, FiniteSets, TLC

VARIABLES
    pc,                \* position of the request handler convert_files
    files,             \* request.files.getlist('files'): upload names
    raw_format,        \* request.form.get('output_format', 'pdf')
    output_format,     \* canonical output format after map_output_format
    idx,               \* number of files the loop has consumed
    conversion_errors, \* list of per-file error messages
    converted_files,   \* list of output filenames of succeeded files
    outcomes,          \* history: per upload the branch taken, the engine's
                       \* exit and the output filename
    uploads_dir,       \* <session>/uploads: saved name -> index of upload
    converted_dir,     \* <session>/converted: output name -> file content
    media_dir,         \* <session>/media: files extracted by the engine
    img_dir,           \* <session>/img: relocated media, name -> content
    session_dir,       \* entries of output/<session_id> that exist, "." for
                       \* the directory itself
    response,          \* what the handler returns to the HTTP client
    call               \* a direct call of a registry function and its result

vars == <<pc, files, raw_format, output_format, idx, conversion_errors,
          converted_files, outcomes, uploads_dir, converted_dir, media_dir,
          img_dir, session_dir, response, call>>

batch_vars == <<pc, files, raw_format, output_format, idx, conversion_errors,
                converted_files, outcomes, uploads_dir, converted_dir,
                media_dir, img_dir, session_dir, response>>

----------------------------------------------------------------------------
(* Bounds of the model *)

\* longest batch of uploads in one request
MaxBatch == 2

\* longest run of whitespace put before or after a requested format
MaxPad == 1

----------------------------------------------------------------------------
(* Character-level text *)

\* the member of a set of one value: a local variable of the source that is
\* assigned once is bound to its value by v \in {expression}
The(S) == CHOOSE x \in S : TRUE

RECURSIVE Join(_)
Join(s) == IF s = <<>> THEN "" ELSE Head(s) \o Join(Tail(s))

UpperToLower ==
    "A" :> "a" @@ "B" :> "b" @@ "C" :> "c" @@ "D" :> "d" @@ "E" :> "e" @@
    "F" :> "f" @@ "G" :> "g" @@ "H" :> "h" @@ "I" :> "i" @@ "J" :> "j" @@
    "K" :> "k" @@ "L" :> "l" @@ "M" :> "m" @@ "N" :> "n" @@ "O" :> "o" @@
    "P" :> "p" @@ "Q" :> "q" @@ "R" :> "r" @@ "S" :> "s" @@ "T" :> "t" @@
    "U" :> "u" @@ "V" :> "v" @@ "W" :> "w" @@ "X" :> "x" @@ "Y" :> "y" @@
    "Z" :> "z"

\* str.lower()
lower(s) ==
    [i \in 1..Len(s) |->
        IF s[i] \in DOMAIN UpperToLower THEN UpperToLower[s[i]] ELSE s[i]]

Whitespace == {" ", "\t", "\n"}

RECURSIVE lstrip(_)
lstrip(s) ==
    IF s # <<>> /\ Head(s) \in Whitespace THEN lstrip(Tail(s)) ELSE s

RECURSIVE rstrip(_)
rstrip(s) ==
    IF s # <<>> /\ s[Len(s)] \in Whitespace
    THEN rstrip(SubSeq(s, 1, Len(s) - 1)) ELSE s

\* str.strip()
strip(s) == rstrip(lstrip(s))

\* index of the last '.' of s, 0 when s has none
LastDot(s) ==
    IF \E i \in 1..Len(s) : s[i] = "."
    THEN CHOOSE i \in 1..Len(s) :
            /\ s[i] = "."
            /\ \A j \in (i+1)..Len(s) : s[j] # "."
    ELSE 0

\* s.rsplit('.', 1)
rsplit_dot(s) ==
    IF LastDot(s) = 0 THEN <<s>>
    ELSE <<SubSeq(s, 1, LastDot(s) - 1), SubSeq(s, LastDot(s) + 1, Len(s))>>

\* os.path.splitext on a name without directory part: the extension starts
\* at the last dot unless only dots precede it
splitext(s) ==
    IF LastDot(s) = 0 \/ \A j \in 1..(LastDot(s) - 1) : s[j] = "."
    THEN <<s, <<>>>>
    ELSE <<SubSeq(s, 1, LastDot(s) - 1), SubSeq(s, LastDot(s), Len(s))>>

----------------------------------------------------------------------------
(* Format registry *)

input_format_mapping ==
    "docx" :> "docx" @@ "doc" :> "doc" @@ "odt" :> "odt" @@ "rtf" :> "rtf" @@
    "html" :> "html" @@ "htm" :> "html" @@ "txt" :> "markdown" @@
    "md" :> "markdown" @@ "markdown" :> "markdown" @@ "tex" :> "latex" @@
    "latex" :> "latex" @@ "epub" :> "epub" @@ "mobi" :> "mobi" @@
    "fb2" :> "fb2" @@ "opml" :> "opml" @@ "org" :> "org" @@
    "mediawiki" :> "mediawiki" @@ "dokuwiki" :> "dokuwiki" @@
    "textile" :> "textile" @@ "rst" :> "rst" @@ "asciidoc" :> "asciidoc" @@
    "man" :> "man" @@ "ms" :> "ms" @@ "docbook" :> "docbook" @@
    "xml" :> "docbook" @@ "jats" :> "jats" @@ "tei" :> "tei" @@
    "ris" :> "ris" @@ "csljson" :> "csljson" @@
    "endnotexml" :> "endnotexml" @@ "ipynb" :> "ipynb" @@ "csv" :> "csv" @@
    "tsv" :> "tsv" @@ "json" :> "json" @@ "native" :> "native" @@
    "typst" :> "typst" @@ "djot" :> "djot" @@ "creole" :> "creole" @@
    "tikiwiki" :> "tikiwiki" @@ "twiki" :> "twiki" @@
    "vimwiki" :> "vimwiki" @@ "muse" :> "muse" @@ "pod" :> "pod" @@
    "t2t" :> "t2t" @@ "haddock" :> "haddock" @@ "mdoc" :> "mdoc" @@
    "biblatex" :> "biblatex" @@ "bibtex" :> "bibtex" @@ "bits" :> "bits" @@
    "pdf" :> "pdf" @@ "pptx" :> "pptx"

\* ALLOWED_EXTENSIONS if it held an extension get_input_format has no entry
\* for
ALLOWED_EXTENSIONS_with_py == DOMAIN input_format_mapping \cup {"py"}

ALLOWED_EXTENSIONS ==
    { "docx", "doc", "odt", "rtf", "html", "htm", "txt", "md", "markdown",
      "tex", "latex", "epub", "mobi", "fb2", "opml", "org", "mediawiki",
      "dokuwiki", "textile", "rst", "asciidoc", "man", "ms", "docbook",
      "xml", "jats", "tei", "ris", "csljson", "endnotexml", "ipynb", "csv",
      "tsv", "json", "native", "typst", "djot", "creole", "tikiwiki",
      "twiki", "vimwiki", "muse", "pod", "t2t", "haddock", "mdoc",
      "biblatex", "bibtex", "bits", "pdf", "pptx" }

\* allowed_file if the text after the last dot were not looked up
allowed_file_any_extension(filename) == LastDot(filename) # 0

allowed_file(filename) ==
    /\ LastDot(filename) # 0
    /\ Join(lower(rsplit_dot(filename)[2])) \in ALLOWED_EXTENSIONS

\* filename.rsplit('.', 1)[1] raises IndexError when the list has one item
get_input_format(filename) ==
    IF Len(rsplit_dot(filename)) < 2
    THEN [ok |-> FALSE, val |-> "IndexError"]
    ELSE LET ext == Join(lower(rsplit_dot(filename)[2]))
         IN  [ok |-> TRUE,
              val |-> IF ext \in DOMAIN input_format_mapping
                      THEN input_format_mapping[ext] ELSE "markdown"]

\* the dict literal of map_output_format; where the source repeats a key
\* the last value is the one Python keeps
output_format_mapping ==
    "txt" :> "plain" @@ "text" :> "plain" @@ "plaintext" :> "plain" @@
    "word" :> "docx" @@ "powerpoint" :> "pptx" @@ "presentation" :> "pptx" @@
    "document" :> "docx" @@ "webpage" :> "html" @@ "web" :> "html" @@
    "page" :> "html" @@ "notebook" :> "ipynb" @@ "jupyter" :> "ipynb" @@
    "ebook" :> "epub" @@ "book" :> "epub" @@ "slide" :> "revealjs" @@
    "slides" :> "revealjs" @@ "deck" :> "revealjs" @@
    "beamer_slide" :> "beamer" @@ "latex_slide" :> "beamer" @@
    "pdf_slide" :> "beamer" @@ "markdown_github" :> "md" @@
    "github_markdown" :> "gfm" @@ "github" :> "gfm" @@
    "commonmark_x" :> "md" @@ "commonmark_x_extended" :> "commonmark_x" @@
    "extended_commonmark" :> "commonmark_x" @@ "markua" :> "md" @@
    "markua_document" :> "markua" @@ "spip" :> "txt" @@
    "spip_wiki" :> "spip" @@ "epub2" :> "epub" @@
    "epub_version2" :> "epub2" @@ "epub3" :> "epub" @@
    "epub_version3" :> "epub3" @@ "docbook4" :> "xml" @@
    "docbook_version4" :> "docbook4" @@ "docbook5" :> "xml" @@
    "docbook_version5" :> "docbook5" @@ "jats_archiving" :> "xml" @@
    "jats_archiving_version" :> "jats_archiving" @@
    "jats_publishing" :> "xml" @@
    "jats_publishing_version" :> "jats_publishing" @@
    "jats_articleauthoring" :> "xml" @@
    "jats_article_authoring" :> "jats_articleauthoring" @@
    "html5" :> "html" @@ "html_version5" :> "html5" @@ "html4" :> "html" @@
    "html_version4" :> "html4" @@ "xhtml" :> "xhtml" @@
    "xhtml5" :> "xhtml" @@ "xhtml_version5" :> "xhtml5" @@
    "xhtml4" :> "xhtml" @@ "xhtml_version4" :> "xhtml4" @@
    "markdown_mmd" :> "md" @@ "markdown_phpextra" :> "md" @@
    "markdown_strict" :> "md" @@ "markdown_texinfo" :> "texi" @@
    "commonmark" :> "md" @@ "commonmark_strict" :> "commonmark" @@
    "commonmark_extended" :> "commonmark_x" @@ "gfm" :> "md" @@
    "github_flavored" :> "gfm" @@ "texinfo" :> "texi" @@
    "tex_info" :> "texinfo" @@ "textile" :> "textile" @@
    "textile_wiki" :> "textile" @@ "org" :> "org" @@ "org_mode" :> "org" @@
    "emacs_org" :> "org" @@ "asciidoc" :> "adoc" @@
    "ascii_doc" :> "asciidoc" @@ "rst" :> "rst" @@
    "restructuredtext" :> "rst" @@ "rest" :> "rst" @@
    "mediawiki" :> "wiki" @@ "wiki" :> "mediawiki" @@
    "wikipedia" :> "mediawiki" @@ "dokuwiki" :> "txt" @@
    "doku_wiki" :> "dokuwiki" @@ "haddock" :> "hs" @@
    "haskell_doc" :> "haddock" @@ "opml" :> "opml" @@ "outline" :> "opml" @@
    "fb2" :> "fb2" @@ "fictionbook" :> "fb2" @@ "mobi" :> "mobi" @@
    "kindle" :> "mobi" @@ "icml" :> "icml" @@ "indesign" :> "icml" @@
    "tei" :> "xml" @@ "text_encoding_initiative" :> "tei" @@
    "native" :> "native" @@ "pandoc_native" :> "native" @@
    "json" :> "json" @@ "javascript_object_notation" :> "json" @@
    "man" :> "man" @@ "ms" :> "ms"

\* map_output_format without the lower-casing of its argument
map_output_format_case_sensitive(user_format) ==
    IF Join(user_format) \in DOMAIN output_format_mapping
    THEN output_format_mapping[Join(user_format)] ELSE Join(user_format)

map_output_format(user_format) ==
    LET key == Join(lower(user_format))
    IN  IF key \in DOMAIN output_format_mapping
        THEN output_format_mapping[key] ELSE key

\* resolve_output_format without the strip() of the form value
resolve_output_format_unstripped(original_output_format) ==
    IF strip(original_output_format) = <<>>
    THEN [ok |-> FALSE, val |-> "Output format is required"]
    ELSE [ok |-> TRUE,
          val |-> map_output_format(lower(original_output_format))]

\* convert_files: original_output_format.strip().lower(), the check for an
\* empty format, then map_output_format
resolve_output_format(original_output_format) ==
    LET stripped == lower(strip(original_output_format))
    IN  IF stripped = <<>> \/ strip(stripped) = <<>>
        THEN [ok |-> FALSE, val |-> "Output format is required"]
        ELSE [ok |-> TRUE, val |-> map_output_format(stripped)]

format_extensions ==
    "gfm" :> "md" @@ "markdown" :> "md" @@ "html" :> "html" @@
    "latex" :> "tex" @@ "pdf" :> "pdf" @@ "docx" :> "docx" @@
    "odt" :> "odt" @@ "rtf" :> "rtf" @@ "epub" :> "epub" @@
    "pptx" :> "pptx" @@ "xml" :> "xml" @@ "txt" :> "txt" @@
    "plain" :> "txt" @@ "docbook" :> "xml" @@ "jats" :> "xml" @@
    "opendocument" :> "odt" @@ "revealjs" :> "html" @@ "beamer" :> "pdf" @@
    "s5" :> "html" @@ "slideous" :> "html" @@ "dzslides" :> "html" @@
    "slidy" :> "html" @@ "asciidoc" :> "adoc" @@ "rst" :> "rst" @@
    "org" :> "org" @@ "textile" :> "textile" @@ "mediawiki" :> "wiki" @@
    "dokuwiki" :> "txt" @@ "haddock" :> "hs" @@ "man" :> "man" @@
    "ms" :> "ms" @@ "opml" :> "opml" @@ "fb2" :> "fb2" @@ "mobi" :> "mobi" @@
    "icml" :> "icml" @@ "tei" :> "xml" @@ "native" :> "native" @@
    "json" :> "json" @@ "docbook5" :> "xml" @@ "docbook4" :> "xml" @@
    "jats_archiving" :> "xml" @@ "jats_publishing" :> "xml" @@
    "jats_articleauthoring" :> "xml" @@ "html5" :> "html" @@
    "html4" :> "html" @@ "xhtml" :> "xhtml" @@ "xhtml5" :> "xhtml" @@
    "xhtml4" :> "xhtml" @@ "markdown_github" :> "md" @@
    "markdown_mmd" :> "md" @@ "markdown_phpextra" :> "md" @@
    "markdown_strict" :> "md" @@ "markdown_texinfo" :> "texi" @@
    "commonmark" :> "md" @@ "commonmark_x" :> "md" @@ "markua" :> "md" @@
    "spip" :> "txt" @@ "epub2" :> "epub" @@ "epub3" :> "epub" @@
    "texinfo" :> "texi"

----------------------------------------------------------------------------
(* werkzeug.utils.secure_filename, as convert_files uses it *)

Digits == {"0", "1", "2", "3", "4", "5", "6", "7", "8", "9"}

\* the characters the pattern [^A-Za-z0-9_.-] leaves in place
AsciiSafe ==
    DOMAIN UpperToLower \cup {UpperToLower[u] : u \in DOMAIN UpperToLower}
    \cup Digits \cup {"_", ".", "-"}

\* NFKD normalisation followed by encode('ascii', 'ignore'): an accented
\* letter keeps its base letter, any other non-ASCII code point disappears
AsciiFold(c) ==
    IF c = "U+00E9" THEN <<"e">>
    ELSE IF c \in AsciiSafe \cup Whitespace \cup {"/"} THEN <<c>>
    ELSE <<>>

RECURSIVE FoldAll(_)
FoldAll(s) == IF s = <<>> THEN <<>> ELSE AsciiFold(Head(s)) \o FoldAll(Tail(s))

\* filename.replace(os.sep, ' ')
ReplaceSep(s) == [i \in 1..Len(s) |-> IF s[i] = "/" THEN " " ELSE s[i]]

\* '_'.join(s.split()) on a string without leading or trailing whitespace
RECURSIVE JoinWords(_)
JoinWords(s) ==
    IF s = <<>> THEN <<>>
    ELSE IF Head(s) \in Whitespace THEN <<"_">> \o JoinWords(lstrip(s))
    ELSE <<Head(s)>> \o JoinWords(Tail(s))

\* str.strip('._')
RECURSIVE StripDotUnderscore(_)
StripDotUnderscore(s) ==
    IF s # <<>> /\ Head(s) \in {".", "_"} THEN StripDotUnderscore(Tail(s))
    ELSE IF s # <<>> /\ s[Len(s)] \in {".", "_"}
    THEN StripDotUnderscore(SubSeq(s, 1, Len(s) - 1))
    ELSE s

secure_filename(name) ==
    The({StripDotUnderscore(kept) :
            kept \in {SelectSeq(joined, LAMBDA c : c \in AsciiSafe) :
                joined \in {JoinWords(stripped) :
                    stripped \in {strip(ReplaceSep(folded)) :
                        folded \in {FoldAll(name)}}}}})

----------------------------------------------------------------------------
(* Files of the session directory *)

\* a file written by the engine for upload number src: its size in bytes,
\* whether its first 100 characters are blank, whether it decodes as UTF-8
\* and the media paths it refers to
FileContent(src, size, blank, utf8, refs) ==
    [src |-> src, size |-> size, blank |-> blank, utf8 |-> utf8,
     refs |-> refs]

\* what the engine may leave at the output path when it exits cleanly
Artifacts ==
    { [exists |-> FALSE, size |-> 0,   blank |-> TRUE,  utf8 |-> TRUE],
      [exists |-> TRUE,  size |-> 0,   blank |-> TRUE,  utf8 |-> TRUE],
      [exists |-> TRUE,  size |-> 120, blank |-> TRUE,  utf8 |-> TRUE],
      [exists |-> TRUE,  size |-> 10,  blank |-> FALSE, utf8 |-> TRUE],
      [exists |-> TRUE,  size |-> 200, blank |-> FALSE, utf8 |-> TRUE],
      [exists |-> TRUE,  size |-> 200, blank |-> FALSE, utf8 |-> FALSE] }

\* media the engine may extract from one document, relative to the
\* extraction directory
MediaSets ==
    { {}, {[dir |-> "media", stem |-> "image1", ext |-> ".png"]} }

Put(dir, name, content) == (name :> content) @@ dir

----------------------------------------------------------------------------
(* validate_output_file *)

BinaryFormats == {"pdf", "docx", "pptx", "odt", "epub", "mobi", "fb2"}

MinBinarySize == 50

\* validate_output_file if only the size of a binary container were examined
validate_output_file_binary_only(dir, output_name, fmt) ==
    IF output_name \notin DOMAIN dir
    THEN [ok |-> FALSE, msg |-> <<"Output file was not created">>]
    ELSE IF fmt \in BinaryFormats /\ dir[output_name].size < MinBinarySize
    THEN [ok |-> FALSE,
          msg |-> <<"Output ", fmt,
                    " file appears to be corrupted (too small)">>]
    ELSE [ok |-> TRUE,
          msg |-> <<"Output ", fmt, " file validated successfully">>]

validate_output_file(dir, output_name, fmt) ==
    IF output_name \notin DOMAIN dir
    THEN [ok |-> FALSE, msg |-> <<"Output file was not created">>]
    ELSE IF dir[output_name].size = 0
    THEN [ok |-> FALSE, msg |-> <<"Output file is empty">>]
    ELSE IF fmt \in BinaryFormats
    THEN IF dir[output_name].size < MinBinarySize
         THEN [ok |-> FALSE,
               msg |-> <<"Output ", fmt,
                         " file appears to be corrupted (too small)">>]
         ELSE [ok |-> TRUE,
               msg |-> <<"Output ", fmt, " file validated successfully">>]
    ELSE IF dir[output_name].utf8
    THEN IF dir[output_name].blank
         THEN [ok |-> FALSE, msg |-> <<"Output ", fmt, " file is empty">>]
         ELSE [ok |-> TRUE,
               msg |-> <<"Output ", fmt, " file validated successfully">>]
    ELSE IF dir[output_name].size < MinBinarySize
         THEN [ok |-> FALSE,
               msg |-> <<"Output ", fmt,
                         " file appears to be corrupted (too small)">>]
         ELSE [ok |-> TRUE,
               msg |-> <<"Output ", fmt, " file validated successfully">>]

----------------------------------------------------------------------------
(* convert_file_with_pandoc *)

media_supporting_formats ==
    { "html", "html5", "xhtml", "epub", "epub2", "epub3", "docx", "pptx",
      "odt", "markdown", "gfm", "commonmark", "commonmark_x", "rst",
      "asciidoc", "textile", "mediawiki", "dokuwiki", "org", "opml", "fb2",
      "mobi", "docbook", "docbook4", "docbook5", "jats", "tei", "icml" }

media_bearing_inputs == {"docx", "pptx", "odt", "epub", "html"}

\* extracts_media if only the output format were looked at
extracts_media_by_output(input_format, fmt) ==
    fmt \in media_supporting_formats

extracts_media(input_format, fmt) ==
    fmt \in media_supporting_formats \/ input_format \in media_bearing_inputs

\* the if/elif cascade on output_format; its else branch adds nothing
format_flags ==
    "gfm" :> <<"--wrap=none", "--markdown-headings=atx">> @@
    "markdown" :> <<"--wrap=none">> @@
    "html" :> <<"--standalone", "--self-contained">> @@
    "html5" :> <<"--standalone", "--self-contained", "--to=html5">> @@
    "xhtml" :> <<"--standalone", "--self-contained", "--to=xhtml">> @@
    "pdf" :> <<"--pdf-engine=xelatex">> @@ "latex" :> <<"--standalone">> @@
    "docx" :> <<"--reference-doc=">> @@ "pptx" :> <<"--reference-doc=">> @@
    "odt" :> <<"--reference-doc=">> @@ "rtf" :> <<>> @@
    "epub" :> <<"--epub-cover-image=">> @@ "epub2" :> <<"--to=epub2">> @@
    "epub3" :> <<"--to=epub3">> @@ "txt" :> <<"--wrap=none">> @@
    "xml" :> <<"--standalone">> @@
    "docbook" :> <<"--standalone", "--to=docbook5">> @@
    "docbook5" :> <<"--standalone", "--to=docbook5">> @@
    "docbook4" :> <<"--standalone", "--to=docbook4">> @@
    "jats" :> <<"--standalone", "--to=jats">> @@
    "jats_archiving" :> <<"--standalone", "--to=jats_archiving">> @@
    "jats_publishing" :> <<"--standalone", "--to=jats_publishing">> @@
    "jats_articleauthoring" :> <<"--standalone", "--to=jats_articleauthoring">> @@
    "revealjs" :> <<"--standalone", "--to=revealjs">> @@
    "beamer" :> <<"--pdf-engine=xelatex", "--to=beamer">> @@
    "s5" :> <<"--standalone", "--to=s5">> @@
    "slideous" :> <<"--standalone", "--to=slideous">> @@
    "dzslides" :> <<"--standalone", "--to=dzslides">> @@
    "slidy" :> <<"--standalone", "--to=slidy">> @@
    "asciidoc" :> <<"--wrap=none">> @@ "rst" :> <<"--wrap=none">> @@
    "org" :> <<"--wrap=none">> @@ "textile" :> <<"--wrap=none">> @@
    "mediawiki" :> <<"--wrap=none">> @@ "dokuwiki" :> <<"--wrap=none">> @@
    "haddock" :> <<"--wrap=none">> @@ "man" :> <<>> @@ "ms" :> <<>> @@
    "opml" :> <<"--standalone">> @@ "fb2" :> <<"--standalone">> @@
    "mobi" :> <<"--standalone">> @@ "icml" :> <<"--standalone">> @@
    "tei" :> <<"--standalone">> @@ "native" :> <<>> @@
    "json" :> <<"--to=json">> @@
    "commonmark" :> <<"--wrap=none", "--to=commonmark">> @@
    "commonmark_x" :> <<"--wrap=none", "--to=commonmark_x">> @@
    "markua" :> <<"--wrap=none", "--to=markua">> @@
    "spip" :> <<"--wrap=none">> @@ "texinfo" :> <<"--standalone">> @@
    "opendocument" :> <<"--to=opendocument">>

\* format_specific_flags if the cascade had only its else branch
format_specific_flags_none(fmt) == <<>>

format_specific_flags(fmt) ==
    IF fmt \in DOMAIN format_flags THEN format_flags[fmt] ELSE <<>>

pandoc_cmd(input_path, output_path, input_format, fmt, extract_media_dir) ==
    <<"pandoc", input_path, "-f", input_format, "-t", fmt, "-o", output_path>>
    \o (IF extracts_media(input_format, fmt)
        THEN <<"--extract-media", extract_media_dir>> ELSE <<>>)
    \o format_specific_flags(fmt)

\* outcomes of subprocess.run(cmd, check=True): a clean exit, a non-zero
\* exit (CalledProcessError), no pandoc binary (FileNotFoundError) or any
\* other exception
EngineExits == {"ok", "nonzero", "missing", "oserror"}

\* the media directory after the engine has written the media set ms of
\* upload src into it; a path that is already there is overwritten
WriteMedia(mdir, ms, src) ==
    {m \in mdir : \A n \in ms :
        ~(n.dir = m.dir /\ n.stem = m.stem /\ n.ext = m.ext)}
    \cup {[dir |-> n.dir, stem |-> n.stem, ext |-> n.ext, src |-> src] :
            n \in ms}

\* the references a document holds to the media extracted with it
RefsTo(ms, extract_media_dir) ==
    IF ms = {} THEN <<>>
    ELSE LET n == CHOOSE n \in ms : TRUE
         IN  << <<extract_media_dir, n.dir, n.stem \o n.ext>> >>

\* subprocess.run(cmd) exiting cleanly: the converted and media directories
\* after the engine wrote its artifact and, when asked to, the media
subprocess_run(cmd, output_name, extract_media_dir, src, eng, cdir, mdir) ==
    LET extracted == IF "--extract-media" \in {cmd[k] : k \in DOMAIN cmd}
                     THEN eng.media ELSE {}
    IN  [converted |->
            IF eng.art.exists
            THEN Put(cdir, output_name,
                     FileContent(src, eng.art.size, eng.art.blank,
                                 eng.art.utf8,
                                 RefsTo(extracted, extract_media_dir)))
            ELSE cdir,
         media |-> WriteMedia(mdir, extracted, src)]

\* validate_engine_output if the validator's verdict were not looked at
validate_engine_output_ignored(written, output_name, fmt) ==
    [success |-> TRUE, error |-> <<>>,
     converted |-> written.converted, media |-> written.media]

\* the tail of convert_file_with_pandoc after a clean exit: the output is
\* validated and a rejected output makes the conversion a failure
validate_engine_output(written, output_name, fmt) ==
    LET validation == validate_output_file(written.converted, output_name,
                                           fmt)
    IN  IF ~validation.ok
        THEN [success |-> FALSE,
              error |-> <<"Conversion completed but validation failed: ">>
                        \o validation.msg,
              converted |-> written.converted, media |-> written.media]
        ELSE [success |-> TRUE, error |-> <<>>,
              converted |-> written.converted, media |-> written.media]

\* convert_file_with_pandoc if the error of a non-zero exit were the bare
\* stderr text and a missing binary were reported like any other exception
convert_file_with_pandoc_uncategorised(input_path, output_name, input_format, fmt, extract_media_dir, src, eng, cdir, mdir) ==
    IF eng.exit = "nonzero"
    THEN [success |-> FALSE, error |-> <<"<stderr>">>,
          converted |-> cdir, media |-> mdir]
    ELSE IF eng.exit \in {"missing", "oserror"}
    THEN [success |-> FALSE,
          error |-> <<"Conversion error: ", "<exception>">>,
          converted |-> cdir, media |-> mdir]
    ELSE The({validate_engine_output(written, output_name, fmt) :
                written \in {subprocess_run(
                    pandoc_cmd(input_path, output_name, input_format, fmt,
                               extract_media_dir),
                    output_name, extract_media_dir, src, eng, cdir, mdir)}})

\* the result (success, error) and the directories after the call; eng is
\* what the engine did: its exit, the artifact and the media set
convert_file_with_pandoc(input_path, output_name, input_format, fmt, extract_media_dir, src, eng, cdir, mdir) ==
    IF eng.exit = "nonzero"
    THEN [success |-> FALSE, error |-> <<"Pandoc error: ", "<stderr>">>,
          converted |-> cdir, media |-> mdir]
    ELSE IF eng.exit = "missing"
    THEN [success |-> FALSE,
          error |-> <<"Pandoc is not installed or not found in PATH">>,
          converted |-> cdir, media |-> mdir]
    ELSE IF eng.exit = "oserror"
    THEN [success |-> FALSE,
          error |-> <<"Conversion error: ", "<exception>">>,
          converted |-> cdir, media |-> mdir]
    ELSE The({validate_engine_output(written, output_name, fmt) :
                written \in {subprocess_run(
                    pandoc_cmd(input_path, output_name, input_format, fmt,
                               extract_media_dir),
                    output_name, extract_media_dir, src, eng, cdir, mdir)}})

----------------------------------------------------------------------------
(* preprocess_special_formats *)

\* outcomes of the native extractors convert_pdf_to_markdown and
\* convert_pptx_to_markdown: the intermediate file is written, the library
\* is not installed, or the extraction raises
ExtractorOutcomes == {"ok", "unavailable", "fail"}

convert_pdf_to_markdown(outcome) ==
    IF outcome = "unavailable"
    THEN [ok |-> FALSE,
          error |-> <<"PyMuPDF is not available for PDF processing">>]
    ELSE IF outcome = "fail"
    THEN [ok |-> FALSE, error |-> <<"PDF conversion error: ", "<exception>">>]
    ELSE [ok |-> TRUE, error |-> <<>>]

convert_pptx_to_markdown(outcome) ==
    IF outcome = "unavailable"
    THEN [ok |-> FALSE,
          error |-> <<"python-pptx is not available for PPTX processing">>]
    ELSE IF outcome = "fail"
    THEN [ok |-> FALSE, error |-> <<"PPTX conversion error: ", "<exception>">>]
    ELSE [ok |-> TRUE, error |-> <<>>]

\* the result of the extractor chosen by the input format
extract_to_markdown(input_format, outcome) ==
    IF input_format = "pdf" THEN convert_pdf_to_markdown(outcome)
    ELSE convert_pptx_to_markdown(outcome)

\* preprocess_special_formats if every format were handed to the engine as
\* it is
preprocess_special_formats_passthrough(input_path, input_format, udir, src, outcome) ==
    [ok |-> TRUE, path |-> input_path, fmt |-> input_format, error |-> <<>>,
     uploads |-> udir]

\* returns the path and format to hand to the engine, or an error, and the
\* uploads directory with the intermediate file when one was written
preprocess_special_formats(input_path, input_format, udir, src, outcome) ==
    IF input_format \in {"pdf", "pptx"}
    THEN IF extract_to_markdown(input_format, outcome).ok
         THEN [ok |-> TRUE, path |-> "temp_converted.md",
               fmt |-> "markdown", error |-> <<>>,
               uploads |-> Put(udir, "temp_converted.md", src)]
         ELSE [ok |-> FALSE, path |-> "", fmt |-> "",
               error |-> extract_to_markdown(input_format, outcome).error,
               uploads |-> udir]
    ELSE [ok |-> TRUE, path |-> input_path, fmt |-> input_format,
          error |-> <<>>, uploads |-> udir]

----------------------------------------------------------------------------
(* organize_media_files and fix_image_paths_in_file *)

\* FreeName if the destination were never tested for existence
FreeName_unchecked(idir, stem, ext, counter) == stem \o ext

\* the first name among file, base_1ext, base_2ext, ... that is free
RECURSIVE FreeName(_, _, _, _)
FreeName(idir, stem, ext, counter) ==
    LET name == IF counter = 0 THEN stem \o ext
                ELSE stem \o "_" \o ToString(counter) \o ext
    IN  IF name \in DOMAIN idir THEN FreeName(idir, stem, ext, counter + 1)
        ELSE name

\* moves the files of the extraction directory, in the order os.walk
\* yields them, into the flat img directory
RECURSIVE organize_media_files(_, _, _, _)
organize_media_files(order, mdir, idir, moved) ==
    IF order = <<>>
    THEN [moved |-> moved, media |-> mdir, img |-> idir]
    ELSE LET m == CHOOSE m \in mdir :
                    /\ m.dir = Head(order).dir
                    /\ m.stem = Head(order).stem
                    /\ m.ext = Head(order).ext
             dst == FreeName(idir, m.stem, m.ext, 0)
         IN  organize_media_files(Tail(order), mdir \ {m},
                Put(idir, dst, FileContent(m.src, 200, FALSE, FALSE, <<>>)),
                Append(moved, dst))

PathOf(m) == [dir |-> m.dir, stem |-> m.stem, ext |-> m.ext]

\* the orders in which os.walk may yield the files of a media directory
WalkOrders ==
    UNION {{<<>>} \cup {<<n>> : n \in ms} : ms \in MediaSets}

IsWalkOf(order, mdir) ==
    /\ Len(order) = Cardinality(mdir)
    /\ {order[k] : k \in DOMAIN order} = {PathOf(m) : m \in mdir}

\* the files os.walk and shutil.move got through when one of them raised
\* before the last file: organize_media_files catches the exception and
\* returns the files moved so far
IsInterruptedWalkOf(order, mdir) ==
    /\ Len(order) < Cardinality(mdir)
    /\ \A i, j \in DOMAIN order : order[i] = order[j] => i = j
    /\ {order[k] : k \in DOMAIN order} \subseteq {PathOf(m) : m \in mdir}

rewritten_formats ==
    {"html", "html5", "xhtml", "markdown", "gfm", "commonmark",
     "commonmark_x", "rst", "asciidoc"}

\* every reference of a supported syntax is pointed at img/<basename>; a
\* file that does not decode as UTF-8 raises and is left as it is
fix_image_paths_in_file(content, fmt) ==
    IF ~content.utf8 THEN content
    ELSE IF fmt \in rewritten_formats
    THEN [content EXCEPT !.refs =
            [k \in DOMAIN content.refs |->
                <<"img", content.refs[k][Len(content.refs[k])]>>]]
    ELSE content

text_based_formats ==
    {"html", "html5", "xhtml", "markdown", "gfm", "commonmark",
     "commonmark_x", "rst", "asciidoc", "textile", "mediawiki", "dokuwiki",
     "org", "opml", "fb2", "mobi", "docbook", "docbook4", "docbook5", "jats",
     "tei", "icml"}

\* applies_rewriting if every converted file were rewritten
applies_rewriting_always(fmt, moved_media_files) == TRUE

\* if output_format in text_based_formats and moved_media_files
applies_rewriting(fmt, moved_media_files) ==
    fmt \in text_based_formats /\ moved_media_files # <<>>

----------------------------------------------------------------------------
(* convert_files: the body of the loop over the uploads *)

\* extension_for if the format tag were always used as the extension
extension_for_tag(fmt) == fmt

extension_for(fmt) ==
    IF fmt \in DOMAIN format_extensions THEN format_extensions[fmt] ELSE fmt

\* output_filename = f"{base_name}.{extension}"
output_filename_of(filename, fmt) ==
    Join(splitext(filename)[1]) \o "." \o extension_for(fmt)

\* What one pass of the loop leaves behind: the branch taken (kind), how the
\* engine exited if it was run, the error appended if any, the output
\* filename, the four directories and the command the engine was invoked
\* with, empty when it was not invoked.
PassResult(kind, exit, error, out, uploads, converted, media, img) ==
    [kind |-> kind, exit |-> exit, error |-> error, out |-> out,
     uploads |-> uploads, converted |-> converted, media |-> media,
     img |-> img, cmd |-> <<>>]

\* after_conversion if a relocation that left files behind or a rewriting
\* that raised made the conversion of the file a failure
after_conversion_strict(output_filename, pre, conv, org) ==
    IF org.media # {} \/ (org.moved # <<>> /\ output_format \in text_based_formats
                          /\ ~conv.converted[output_filename].utf8)
    THEN PassResult("validation", "ok",
                    <<output_filename, ": ", "media could not be organised">>,
                    output_filename, pre.uploads, conv.converted, org.media,
                    org.img)
    ELSE PassResult("ok", "ok", <<>>, output_filename, pre.uploads,
            IF output_format \in text_based_formats /\ org.moved # <<>>
            THEN Put(conv.converted, output_filename,
                     fix_image_paths_in_file(conv.converted[output_filename],
                                             output_format))
            ELSE conv.converted,
            org.media, org.img)

\* the success branch: the media are relocated and, for a text-based format
\* with relocated media, the references of the output are rewritten
after_conversion(output_filename, pre, conv, org) ==
    PassResult("ok", "ok", <<>>, output_filename, pre.uploads,
        IF applies_rewriting(output_format, org.moved)
        THEN Put(conv.converted, output_filename,
                 fix_image_paths_in_file(conv.converted[output_filename],
                                         output_format))
        ELSE conv.converted,
        org.media, org.img)

\* after_engine if a failed conversion left the loop as an exception
\* instead of being recorded
after_engine_raises(input_path, output_filename, pre, conv, eng, order) ==
    IF ~conv.success
    THEN PassResult("raised", eng.exit, conv.error, output_filename,
                    pre.uploads, conv.converted, conv.media, img_dir)
    ELSE IF ~IsWalkOf(order, conv.media)
            /\ ~IsInterruptedWalkOf(order, conv.media)
    THEN PassResult("none", "not run", <<>>, "", uploads_dir, converted_dir,
                    media_dir, img_dir)
    ELSE The({after_conversion(output_filename, pre, conv, org) :
                org \in {organize_media_files(order, conv.media, img_dir,
                                              <<>>)}})

\* the branch on the result of convert_file_with_pandoc
after_engine(input_path, output_filename, pre, conv, eng, order) ==
    IF ~conv.success
    THEN PassResult(IF eng.exit = "ok" THEN "validation" ELSE "engine",
                    eng.exit, <<input_path, ": ">> \o conv.error, output_filename,
                    pre.uploads, conv.converted, conv.media, img_dir)
    ELSE IF ~IsWalkOf(order, conv.media)
            /\ ~IsInterruptedWalkOf(order, conv.media)
    THEN PassResult("none", "not run", <<>>, "", uploads_dir, converted_dir,
                    media_dir, img_dir)
    ELSE The({after_conversion(output_filename, pre, conv, org) :
                org \in {organize_media_files(order, conv.media, img_dir,
                                              <<>>)}})

\* the branch on the result of preprocess_special_formats, the output
\* filename and the call of the engine
after_preprocess(filename, input_path, pre, i, eng, order) ==
    IF ~pre.ok
    THEN PassResult("preprocess", "not run", <<input_path, ": ">> \o pre.error, "",
                    pre.uploads, converted_dir, media_dir, img_dir)
    ELSE The({[after_engine(input_path, output_filename, pre, conv, eng,
                            order)
                 EXCEPT !.cmd = pandoc_cmd(pre.path, output_filename, pre.fmt,
                                           output_format, "media")] :
                output_filename \in
                    {output_filename_of(filename, output_format)},
                conv \in
                    {convert_file_with_pandoc(pre.path,
                        output_filename_of(filename, output_format), pre.fmt,
                        output_format, "media", i, eng, converted_dir,
                        media_dir)}})

\* the upload is saved under its sanitised name and its format is detected
after_save(filename, input_path, input_format, i, extractor, eng, order) ==
    IF ~input_format.ok
    THEN PassResult("raised", "not run", <<"list index out of range">>, "",
                    Put(uploads_dir, input_path, i), converted_dir,
                    media_dir, img_dir)
    ELSE The({after_preprocess(filename, input_path, pre, i, eng, order) :
                pre \in {preprocess_special_formats(input_path,
                            input_format.val,
                            Put(uploads_dir, input_path, i), i, extractor)}})

\* one pass of the loop for upload number i: extractor, eng and order are
\* what the extractor library, the engine and os.walk do during the pass
LoopBody(upload, i, extractor, eng, order) ==
    IF ~(upload # <<>> /\ allowed_file(upload))
    THEN PassResult("invalid", "not run",
                    <<"Invalid file type: ", Join(upload)>>, "",
                    uploads_dir, converted_dir, media_dir, img_dir)
    ELSE The({after_save(filename, Join(filename),
                         get_input_format(filename), i, extractor, eng,
                         order) :
                filename \in {secure_filename(upload)}})

----------------------------------------------------------------------------
(* convert_files: the request handler *)

\* names of the files a client may upload
UploadNames ==
    { <<"r", "e", "p", "o", "r", "t", ".", "m", "d">>,
      <<"a", ".", "m", "d">>,
      <<"b", ".", "u", "n", "s", "u", "p", "p", "o", "r", "t", "e", "d">>,
      <<"b", "a", "d", ".", "d", "o", "c", "x">>,
      <<"s", "l", "i", "d", "e", "s", ".", "p", "p", "t", "x">>,
      <<"s", "c", "a", "n", ".", "P", "D", "F">>,
      <<"m", "y", " ", "r", "e", "p", "o", "r", "t", ".", "m", "d">>,
      <<"U+4E2D", ".", "m", "d">> }

\* values of the form field output_format
RequestedFormats ==
    { <<"w", "o", "r", "d">>,
      <<" ", "H", "T", "M", "L", " ">>,
      <<"t", "x", "t">>,
      <<"g", "f", "m">>,
      <<"u", "n", "k", "n", "o", "w", "n">>,
      <<" ">> }

RECURSIVE Batches(_)
Batches(n) ==
    IF n = 0 THEN {<<>>}
    ELSE Batches(n - 1) \cup
         {Append(b, u) : b \in {c \in Batches(n - 1) : Len(c) = n - 1},
                         u \in UploadNames}

\* the artifact of an engine run that wrote no output file
NoArtifact == CHOOSE a \in Artifacts : ~a.exists

\* what one engine invocation may do: exit cleanly leaving an artifact and
\* media, or fail leaving nothing
CleanRuns ==
    {[exit |-> "ok", art |-> a, media |-> ms] :
        a \in Artifacts, ms \in MediaSets}

FailedRuns ==
    {[exit |-> e, art |-> NoArtifact, media |-> {}] :
        e \in EngineExits \ {"ok"}}

NoRun == [exit |-> "missing", art |-> NoArtifact, media |-> {}]

NoResponse == [status |-> 0, error |-> <<>>, zip |-> <<>>]

\* join_errors if only the last error were reported
join_errors_last(errs) == IF errs = <<>> THEN <<>> ELSE errs[Len(errs)]

\* '; '.join(conversion_errors)
RECURSIVE join_errors(_)
join_errors(errs) ==
    IF errs = <<>> THEN <<>>
    ELSE IF Len(errs) = 1 THEN errs[1]
    ELSE errs[1] \o <<"; ">> \o join_errors(Tail(errs))

\* the members of the ZIP archive: every file listed in the converted
\* directory under its own name, every file of the img directory under img/
zip_members(cdir, idir) ==
    cdir @@
    [a \in {"img/" \o k : k \in DOMAIN idir} |->
        idir[CHOOSE k \in DOMAIN idir : "img/" \o k = a]]

\* the request is refused before any directory is made
RejectRequest ==
    /\ pc = "idle"
    /\ \E fs \in Batches(MaxBatch), f \in RequestedFormats :
        /\ fs = <<>> \/ ~resolve_output_format(f).ok
        /\ files' = fs
        /\ raw_format' = f
        /\ response' = [status |-> 400,
                        error |-> IF fs = <<>> THEN <<"No files selected">>
                                  ELSE <<"Output format is required">>,
                        zip |-> <<>>]
    /\ pc' = "done"
    /\ UNCHANGED <<output_format, idx, conversion_errors, converted_files,
                   outcomes, uploads_dir, converted_dir, media_dir, img_dir,
                   session_dir, call>>

\* the format is resolved and the session directories are made
StartBatch ==
    /\ pc = "idle"
    /\ \E fs \in Batches(MaxBatch), f \in RequestedFormats :
        /\ fs # <<>> /\ resolve_output_format(f).ok
        /\ files' = fs
        /\ raw_format' = f
        /\ output_format' = resolve_output_format(f).val
    /\ pc' = "loop"
    /\ idx' = 0
    /\ conversion_errors' = <<>>
    /\ converted_files' = <<>>
    /\ session_dir' = {".", "uploads", "converted", "media", "img"}
    /\ UNCHANGED <<outcomes, uploads_dir, converted_dir, media_dir, img_dir,
                   response, call>>

\* one pass of the loop that ends in the branch kind, where the extractor,
\* the engine and os.walk behave as one of the given outcomes
Pass(kind, extractors, runs, orders) ==
    /\ \E extractor \in extractors, eng \in runs, order \in orders :
        \E r \in {LoopBody(files[idx + 1], idx + 1, extractor, eng, order)} :
            /\ r.kind = kind
            /\ uploads_dir' = r.uploads
            /\ converted_dir' = r.converted
            /\ media_dir' = r.media
            /\ img_dir' = r.img
            /\ outcomes' = Append(outcomes, [kind |-> r.kind, exit |-> r.exit,
                                            out |-> r.out, cmd |-> r.cmd])
            /\ IF r.kind = "raised"
               THEN /\ pc' = "done"
                    /\ response' = [status |-> 500,
                                    error |-> <<"Server error: ">> \o r.error,
                                    zip |-> <<>>]
                    /\ UNCHANGED <<idx, conversion_errors, converted_files>>
               ELSE /\ idx' = idx + 1
                    /\ conversion_errors' =
                        IF r.kind = "ok" THEN conversion_errors
                        ELSE Append(conversion_errors, r.error)
                    /\ converted_files' =
                        IF r.kind = "ok" THEN Append(converted_files, r.out)
                        ELSE converted_files
                    /\ UNCHANGED <<pc, response>>
    /\ UNCHANGED <<files, raw_format, output_format, session_dir, call>>

\* the upload is refused by allowed_file; nothing else runs
PassInvalidFile ==
    /\ pc = "loop" /\ idx < Len(files)
    /\ Pass("invalid", {"ok"}, {NoRun}, {<<>>})

\* get_input_format raises and the handler's except clause answers 500
PassRaises ==
    /\ pc = "loop" /\ idx < Len(files)
    /\ Pass("raised", {"ok"}, {NoRun}, {<<>>})

\* the extractor of a pdf or pptx upload fails; the engine does not run
PassExtractionFails ==
    /\ pc = "loop" /\ idx < Len(files)
    /\ Pass("preprocess", ExtractorOutcomes \ {"ok"}, {NoRun}, {<<>>})

\* the engine does not exit cleanly
PassEngineFails ==
    /\ pc = "loop" /\ idx < Len(files)
    /\ Pass("engine", {"ok"}, FailedRuns, {<<>>})

\* the engine exits cleanly and validate_output_file rejects the output
PassValidationFails ==
    /\ pc = "loop" /\ idx < Len(files)
    /\ Pass("validation", {"ok"}, CleanRuns, {<<>>})

\* the engine exits cleanly and the output is accepted
PassSucceeds ==
    /\ pc = "loop" /\ idx < Len(files)
    /\ Pass("ok", {"ok"}, CleanRuns, WalkOrders)

\* subprocess.run is called without a timeout: when the engine does not
\* exit, the call does not return and the handler stays in it
PassEngineHangs ==
    /\ pc = "loop" /\ idx < Len(files)
    /\ \E r \in {LoopBody(files[idx + 1], idx + 1, "ok", NoRun, <<>>)} :
        /\ r.kind = "engine"
        /\ uploads_dir' = r.uploads
    /\ pc' = "engine"
    /\ UNCHANGED <<files, raw_format, output_format, idx, conversion_errors,
                   converted_files, outcomes, converted_dir, media_dir,
                   img_dir, session_dir, response, call>>

\* after the loop with no converted file: the 400 response
FinishNoSuccess ==
    /\ pc = "loop" /\ idx = Len(files)
    /\ converted_files = <<>>
    /\ response' =
        [status |-> 400,
         error |-> <<"No files were successfully converted.">> \o
                   (IF conversion_errors # <<>>
                    THEN <<" Errors: ">> \o join_errors(conversion_errors)
                    ELSE <<>>),
         zip |-> <<>>]
    /\ pc' = "done"
    /\ UNCHANGED <<files, raw_format, output_format, idx, conversion_errors,
                   converted_files, outcomes, uploads_dir, converted_dir,
                   media_dir, img_dir, session_dir, call>>

\* after the loop with a converted file: the archive is written into the
\* session directory, the uploads directory is removed and the archive is
\* sent
FinishWithArchive ==
    /\ pc = "loop" /\ idx = Len(files)
    /\ converted_files # <<>>
    /\ response' = [status |-> 200, error |-> <<>>,
                    zip |-> zip_members(converted_dir, img_dir)]
    /\ uploads_dir' = <<>>
    /\ session_dir' = (session_dir \cup {"converted_files_<session_id>.zip"})
                      \ {"uploads"}
    /\ pc' = "done"
    /\ UNCHANGED <<files, raw_format, output_format, idx, conversion_errors,
                   converted_files, outcomes, converted_dir, media_dir,
                   img_dir, call>>

----------------------------------------------------------------------------
(* Direct calls of the registry functions *)

LowerToUpper ==
    [c \in {UpperToLower[u] : u \in DOMAIN UpperToLower} |->
        CHOOSE u \in DOMAIN UpperToLower : UpperToLower[u] = c]

upper(s) ==
    [i \in 1..Len(s) |->
        IF s[i] \in DOMAIN LowerToUpper THEN LowerToUpper[s[i]] ELSE s[i]]

capitalize(s) == IF s = <<>> THEN s ELSE upper(<<Head(s)>>) \o Tail(s)

\* runs of whitespace of length at most n
RECURSIVE Pads(_)
Pads(n) ==
    IF n = 0 THEN {<<>>}
    ELSE Pads(n - 1) \cup
         {<<w>> \o p : w \in Whitespace, p \in {q \in Pads(n - 1) : Len(q) = n - 1}}

\* the strings that differ from s only in letter case or in leading and
\* trailing whitespace
Variants(s) ==
    {l \o c \o r : l \in Pads(MaxPad), r \in Pads(MaxPad),
                   c \in {s, upper(s), capitalize(s)}}

FormatWords ==
    { <<"w", "o", "r", "d">>,
      <<"t", "x", "t">>,
      <<"t", "e", "x", "t">>,
      <<"p", "l", "a", "i", "n", "t", "e", "x", "t">>,
      <<"p", "o", "w", "e", "r", "p", "o", "i", "n", "t">>,
      <<"p", "d", "f">>,
      <<"h", "t", "m", "l">>,
      <<"d", "o", "c", "x">>,
      <<"u", "n", "k", "n", "o", "w", "n">> }

Stems ==
    { <<"r", "e", "p", "o", "r", "t">>,
      <<"R", "E", "A", "D", "M", "E">>,
      <<"a", ".", "b">>,
      <<>> }

Suffixes ==
    { <<>>,
      <<".", "m", "d">>, <<".", "M", "D">>,
      <<".", "h", "t", "m">>,
      <<".", "x", "m", "l">>,
      <<".", "t", "e", "x">>,
      <<".", "p", "d", "f">>,
      <<".", "p", "p", "t", "x">>,
      <<".", "D", "o", "c", "x">>,
      <<".", "t", "x", "t">>,
      <<".", "p", "y">>,
      <<".", "j", "p", "g">>,
      <<".", "h", "t", "m", "l">>,
      <<".", "u", "n", "s", "u", "p", "p", "o", "r", "t", "e", "d">>,
      <<".">> }

\* the filenames handed to get_input_format; none is the empty string
Filenames == {s \o x : s \in Stems, x \in Suffixes} \ {<<>>}

Pending == [ok |-> FALSE, val |-> "pending"]

\* input formats handed to convert_file_with_pandoc: the media-bearing
\* containers and others
CmdInputFormats ==
    media_bearing_inputs \cup {"markdown", "latex", "rst", "xml"}

\* output formats handed to convert_file_with_pandoc: those with a branch
\* of their own, those of the media list and some with neither
CmdOutputFormats ==
    DOMAIN format_flags \cup media_supporting_formats
        \cup {"plain", "md", "adoc", "unknown", ""}

\* a call not yet made: the function, its argument and, for the functions of
\* the output format, the word the argument is a variant of
Calls ==
    {[fn |-> "get_input_format", word |-> f, arg |-> f, twin |-> f,
      done |-> FALSE, ret |-> Pending, ret_twin |-> Pending] :
        f \in Filenames}
    \cup
    {[fn |-> "allowed_file", word |-> f, arg |-> f, twin |-> f,
      done |-> FALSE, ret |-> Pending, ret_twin |-> Pending] :
        f \in Filenames}
    \cup
    UNION {{[fn |-> g, word |-> w, arg |-> a, twin |-> a, done |-> FALSE,
             ret |-> Pending, ret_twin |-> Pending] :
                g \in {"map_output_format", "resolve_output_format"},
                a \in Variants(w)} : w \in FormatWords}
    \cup
    {[fn |-> "convert_file_with_pandoc", input_format |-> i,
      input_twin |-> j, fmt |-> o, done |-> FALSE, cmd |-> <<>>,
      cmd_twin |-> <<>>] :
        i \in CmdInputFormats, j \in {"markdown", "docx"},
        o \in CmdOutputFormats}

BatchInit ==
    /\ pc = "idle"
    /\ files = <<>>
    /\ raw_format = <<>>
    /\ output_format = ""
    /\ idx = 0
    /\ conversion_errors = <<>>
    /\ converted_files = <<>>
    /\ outcomes = <<>>
    /\ uploads_dir = <<>>
    /\ converted_dir = <<>>
    /\ media_dir = {}
    /\ img_dir = <<>>
    /\ session_dir = {}
    /\ response = NoResponse

InitCalls ==
    /\ BatchInit
    /\ call \in Calls

CallGetInputFormat ==
    /\ call.fn = "get_input_format" /\ ~call.done
    /\ call' = [call EXCEPT !.done = TRUE,
                            !.ret = get_input_format(call.arg),
                            !.ret_twin = get_input_format(call.twin)]
    /\ UNCHANGED batch_vars

\* allowed_file applied to the name of an upload, and the pass of the loop
\* of convert_files for that upload in a session that has just been made,
\* with an engine that is not installed
CallAllowedFile ==
    /\ call.fn = "allowed_file" /\ ~call.done
    /\ call' = [call EXCEPT !.done = TRUE,
                            !.ret = [ok |-> TRUE,
                                     val |-> allowed_file(call.arg)],
                            !.ret_twin = LoopBody(call.arg, 1, "ok", NoRun,
                                                  <<>>)]
    /\ UNCHANGED batch_vars

\* the command convert_file_with_pandoc builds for two documents of
\* different input formats, one after the other
CallConvertFileWithPandoc ==
    /\ call.fn = "convert_file_with_pandoc" /\ ~call.done
    /\ call' = [call EXCEPT
                    !.done = TRUE,
                    !.cmd = pandoc_cmd("in_1", "out_1", call.input_format,
                                       call.fmt, "media"),
                    !.cmd_twin = pandoc_cmd("in_2", "out_2", call.input_twin,
                                            call.fmt, "media")]
    /\ UNCHANGED batch_vars

\* map_output_format applied to the argument and to a second string that
\* differs from it only in case or in leading and trailing whitespace
CallMapOutputFormat ==
    /\ call.fn = "map_output_format" /\ ~call.done
    /\ \E b \in Variants(call.word) :
        call' = [call EXCEPT !.done = TRUE,
                             !.twin = b,
                             !.ret = [ok |-> TRUE,
                                      val |-> map_output_format(call.arg)],
                             !.ret_twin = [ok |-> TRUE,
                                           val |-> map_output_format(b)]]
    /\ UNCHANGED batch_vars

\* the same for the resolution done at the head of convert_files
CallResolveOutputFormat ==
    /\ call.fn = "resolve_output_format" /\ ~call.done
    /\ \E b \in Variants(call.word) :
        call' = [call EXCEPT !.done = TRUE,
                             !.twin = b,
                             !.ret = resolve_output_format(call.arg),
                             !.ret_twin = resolve_output_format(b)]
    /\ UNCHANGED batch_vars

NextCalls ==
    \/ CallGetInputFormat
    \/ CallAllowedFile
    \/ CallConvertFileWithPandoc
    \/ CallMapOutputFormat
    \/ CallResolveOutputFormat

SpecCalls == InitCalls /\ [][NextCalls]_vars

----------------------------------------------------------------------------
(* Direct calls of validate_output_file *)

\* A file on disk is a sequence of units: a character that decodes as UTF-8
\* or the byte "0xFF", which no UTF-8 decoder accepts.
Rep(c, n) == [i \in 1..n |-> c]

\* the number of bytes a unit takes on disk
ByteLen(c) == IF c = "U+00E9" THEN 2 ELSE 1

\* os.path.getsize
RECURSIVE getsize(_)
getsize(content) ==
    IF content = <<>> THEN 0
    ELSE ByteLen(Head(content)) + getsize(Tail(content))

\* open(path, 'r', encoding='utf-8') followed by a read raises
\* UnicodeDecodeError when the buffer holds an undecodable byte; the files
\* of the model fit in one read buffer
decodes(content) == \A k \in DOMAIN content : content[k] # "0xFF"

\* the number of characters validate_output_file reads
ReadChunk == 100

\* read if the whole file were read whatever n is
read_all(content, n) == content

\* f.read(n)
read(content, n) ==
    SubSeq(content, 1, IF Len(content) < n THEN Len(content) ELSE n)

\* what validate_output_file sees of a file with this content
Stat(content) ==
    FileContent(0, getsize(content),
                decodes(content) /\ strip(read(content, ReadChunk)) = <<>>,
                decodes(content), <<>>)

\* contents an output file may have
OutputContents ==
    { <<>>,
      <<"\n", "\t", " ">>,
      Rep(" ", 10),
      <<"x">> \o Rep(" ", 9),
      Rep("x", 49),
      Rep("x", 50),
      Rep(" ", 99) \o <<"x">>,
      Rep(" ", 100) \o <<"x">>,
      Rep("U+00E9", 24),
      Rep("U+00E9", 25),
      Rep("0xFF", 10),
      Rep("0xFF", 50),
      Rep(" ", 100) \o <<"0xFF">> }

\* the output formats validate_output_file may be called with
ValidatedFormats == DOMAIN format_extensions \cup BinaryFormats \cup {"unknown"}

NotValidated == [ok |-> FALSE, msg |-> <<>>]

ValidateCalls ==
    {[fn |-> "validate_output_file", exists |-> FALSE, content |-> <<>>,
      fmt |-> f, done |-> FALSE, ret |-> NotValidated] :
        f \in ValidatedFormats}
    \cup
    {[fn |-> "validate_output_file", exists |-> TRUE, content |-> c,
      fmt |-> f, done |-> FALSE, ret |-> NotValidated] :
        c \in OutputContents, f \in ValidatedFormats}

InitValidate ==
    /\ BatchInit
    /\ call \in ValidateCalls

\* validate_output_file on a path that does not exist
CallValidateMissing ==
    /\ call.fn = "validate_output_file" /\ ~call.done /\ ~call.exists
    /\ call' = [call EXCEPT !.done = TRUE,
                            !.ret = validate_output_file(<<>>, "out",
                                                         call.fmt)]
    /\ UNCHANGED batch_vars

\* validate_output_file on a file that exists
CallValidateExisting ==
    /\ call.fn = "validate_output_file" /\ ~call.done /\ call.exists
    /\ call' = [call EXCEPT !.done = TRUE,
                            !.ret = validate_output_file(
                                        Put(<<>>, "out", Stat(call.content)),
                                        "out", call.fmt)]
    /\ UNCHANGED batch_vars

NextValidate ==
    \/ CallValidateMissing
    \/ CallValidateExisting

SpecValidate == InitValidate /\ [][NextValidate]_vars

----------------------------------------------------------------------------
(* Direct calls of organize_media_files *)

\* files an extraction directory may hold, at three depths; two of them
\* share a basename and one bears the name a suffixed duplicate would get
MediaFiles ==
    { [dir |-> "",          stem |-> "image1",   ext |-> ".png", src |-> 1],
      [dir |-> "media",     stem |-> "image1",   ext |-> ".png", src |-> 2],
      [dir |-> "media",     stem |-> "image1_1", ext |-> ".png", src |-> 3],
      [dir |-> "media/sub", stem |-> "README",   ext |-> "",     src |-> 4] }

\* the depth of a directory below the extraction directory
DirDepth == ("" :> 0) @@ ("media" :> 1) @@ ("media/sub" :> 2)

\* os.walk is top-down: the files of a directory are yielded before the
\* files of the directories below it
TopDown(order) ==
    \A i, j \in DOMAIN order :
        i < j => DirDepth[order[i].dir] <= DirDepth[order[j].dir]

\* the orders in which os.walk may yield the files of mdir
WalksOf(mdir) ==
    {o \in [1..Cardinality(mdir) -> {PathOf(m) : m \in mdir}] :
        IsWalkOf(o, mdir) /\ TopDown(o)}

\* files the img directory may already hold
ImgDirs ==
    { <<>>,
      "image1.png" :> FileContent(11, 200, FALSE, FALSE, <<>>),
      "image1_1.png" :> FileContent(12, 200, FALSE, FALSE, <<>>),
      ("image1.png" :> FileContent(11, 200, FALSE, FALSE, <<>>)) @@
      ("image1_1.png" :> FileContent(12, 200, FALSE, FALSE, <<>>)) }

NotOrganized == [moved |-> <<>>, media |-> {}, img |-> <<>>]

OrganizeCalls ==
    UNION {{[fn |-> "organize_media_files", media |-> mdir, img |-> idir,
             order |-> o, done |-> FALSE, ret |-> NotOrganized] :
                o \in WalksOf(mdir), idir \in ImgDirs} :
           mdir \in SUBSET MediaFiles}

InitOrganize ==
    /\ BatchInit
    /\ call \in OrganizeCalls

\* organize_media_files on an extraction directory without files
CallOrganizeEmpty ==
    /\ call.fn = "organize_media_files" /\ ~call.done
    /\ call.media = {}
    /\ call' = [call EXCEPT !.done = TRUE,
                            !.ret = organize_media_files(call.order,
                                        call.media, call.img, <<>>)]
    /\ UNCHANGED batch_vars

\* organize_media_files on an extraction directory with files
CallOrganizeMedia ==
    /\ call.fn = "organize_media_files" /\ ~call.done
    /\ call.media # {}
    /\ call' = [call EXCEPT !.done = TRUE,
                            !.ret = organize_media_files(call.order,
                                        call.media, call.img, <<>>)]
    /\ UNCHANGED batch_vars

NextOrganize ==
    \/ CallOrganizeEmpty
    \/ CallOrganizeMedia

SpecOrganize == InitOrganize /\ [][NextOrganize]_vars

----------------------------------------------------------------------------
(* Direct calls of fix_image_paths_in_file, on the text of the file *)

\* index of the first member of stops in s at or after place i, Len(s) + 1
\* when there is none
RECURSIVE FirstOf(_, _, _)
FirstOf(s, stops, i) ==
    IF i > Len(s) \/ s[i] \in stops THEN i ELSE FirstOf(s, stops, i + 1)

\* the literal lit stands in s at place i
LiteralAt(s, lit, i) ==
    /\ i + Len(lit) - 1 <= Len(s)
    /\ SubSeq(s, i, i + Len(lit) - 1) = lit

\* basename if the whole path were kept
basename_whole(path) == path

\* os.path.basename: what follows the last '/'
basename(path) ==
    IF \E k \in DOMAIN path : path[k] = "/"
    THEN SubSeq(path,
                1 + (CHOOSE k \in DOMAIN path :
                        /\ path[k] = "/"
                        /\ \A j \in (k + 1)..Len(path) : path[j] # "/"),
                Len(path))
    ELSE path

NoMatch == [found |-> FALSE, last |-> 0, repl |-> <<>>]

\* r'src="([^"]*)"' at place i and the replacement of the match
MatchHtml(s, i, q) ==
    IF ~LiteralAt(s, <<"s", "r", "c", "=", "\"">>, i) \/ q > Len(s) THEN NoMatch
    ELSE [found |-> TRUE, last |-> q,
          repl |-> IF q > i + 5
                   THEN <<"s", "r", "c", "=", "\"", "i", "m", "g", "/">> \o basename(SubSeq(s, i + 5, q - 1))
                        \o <<"\"">>
                   ELSE SubSeq(s, i, q)]

\* r'!\[([^\]]*)\]\(([^)]+)\)' at place i; r is the place of the first ']'
\* and c the place of the first ')' after the '('
MatchMarkdown(s, i, r, c) ==
    IF ~LiteralAt(s, <<"!", "[">>, i) \/ ~LiteralAt(s, <<"]", "(">>, r)
       \/ c > Len(s) \/ c = r + 2
    THEN NoMatch
    ELSE [found |-> TRUE, last |-> c,
          repl |-> <<"!", "[">> \o SubSeq(s, i + 2, r - 1) \o <<"]", "(", "i", "m", "g", "/">>
                   \o basename(SubSeq(s, r + 2, c - 1)) \o <<")">>]

\* r'\.\. image:: ([^\n]+)' at place i; e is the place of the end of line
MatchRst(s, i, e) ==
    IF ~LiteralAt(s, <<".", ".", " ", "i", "m", "a", "g", "e", ":", ":", " ">>, i) \/ e = i + 11 THEN NoMatch
    ELSE [found |-> TRUE, last |-> e - 1,
          repl |-> <<".", ".", " ", "i", "m", "a", "g", "e", ":", ":", " ", "i", "m", "g", "/">> \o basename(SubSeq(s, i + 11, e - 1))]

\* r'image::([^[]+)\[([^\]]*)\]' at place i; b is the place of the first
\* '[' and r the place of the first ']' after it
MatchAsciidoc(s, i, b, r) ==
    IF ~LiteralAt(s, <<"i", "m", "a", "g", "e", ":", ":">>, i) \/ b > Len(s) \/ b = i + 7 \/ r > Len(s)
    THEN NoMatch
    ELSE [found |-> TRUE, last |-> r,
          repl |-> <<"i", "m", "a", "g", "e", ":", ":", "i", "m", "g", "/">> \o basename(SubSeq(s, i + 7, b - 1)) \o <<"[">>
                   \o SubSeq(s, b + 1, r - 1) \o <<"]">>]

\* the match of the pattern chosen by the output format at place i
MatchAt(fmt, s, i) ==
    IF fmt \in {"html", "html5", "xhtml"}
    THEN MatchHtml(s, i, FirstOf(s, {"\""}, i + 5))
    ELSE IF fmt \in {"markdown", "gfm", "commonmark", "commonmark_x"}
    THEN MatchMarkdown(s, i, FirstOf(s, {"]"}, i + 2),
                       FirstOf(s, {")"}, FirstOf(s, {"]"}, i + 2) + 2))
    ELSE IF fmt = "rst"
    THEN MatchRst(s, i, FirstOf(s, {"\n"}, i + 11))
    ELSE IF fmt = "asciidoc"
    THEN MatchAsciidoc(s, i, FirstOf(s, {"["}, i + 7),
                       FirstOf(s, {"]"}, FirstOf(s, {"["}, i + 7) + 1))
    ELSE NoMatch

\* re.sub: the matches are found from left to right without overlap and
\* each is replaced
RECURSIVE re_sub(_, _, _, _)
re_sub(fmt, s, i, m) ==
    IF i > Len(s) THEN <<>>
    ELSE IF m.found
    THEN m.repl \o re_sub(fmt, s, m.last + 1, MatchAt(fmt, s, m.last + 1))
    ELSE <<s[i]>> \o re_sub(fmt, s, i + 1, MatchAt(fmt, s, i + 1))

\* reading in text mode turns '\r\n' and '\r' into '\n'
RECURSIVE universal_newlines(_)
universal_newlines(s) ==
    IF s = <<>> THEN <<>>
    ELSE IF Head(s) = "\r"
    THEN <<"\n">> \o universal_newlines(
            IF Len(s) > 1 /\ s[2] = "\n" THEN Tail(Tail(s)) ELSE Tail(s))
    ELSE <<Head(s)>> \o universal_newlines(Tail(s))

\* the text fix_image_paths_in_file writes back for the text it read
rewrite_image_paths(text, fmt) == re_sub(fmt, text, 1, MatchAt(fmt, text, 1))

\* fix_image_paths_in_file on the characters of the file: the returned
\* flag and the content of the file after the call
fix_image_paths_in_text_file(content, fmt) ==
    IF ~decodes(content) THEN [ok |-> FALSE, content |-> content]
    ELSE [ok |-> TRUE,
          content |-> rewrite_image_paths(universal_newlines(content), fmt)]

\* pieces of text an output file may be made of
Fragments ==
    { <<"s", "r", "c", "=", "\"", "m", "e", "d", "i", "a", "/", "a", ".", "p", "n", "g", "\"">>,
      <<"s", "r", "c", "=", "\"", "\"">>,
      <<"s", "r", "c", "=", "\"", "i", "m", "g", "/", "a", ".", "p", "n", "g", "\"">>,
      <<"s", "r", "c", "=", "\"", "d", "/", "\"">>,
      <<"s", "r", "c", "=", "\"", "x">>,
      <<"!", "[", "a", "l", "t", "]", "(", "m", "e", "d", "i", "a", "/", "a", ".", "p", "n", "g", ")">>,
      <<"!", "[", "]", "(", "d", "/", "e", "/", ")">>,
      <<"!", "[", "a", "]", "(", ")">>,
      <<"!", "[", "a", "]", "(", "x">>,
      <<".", ".", " ", "i", "m", "a", "g", "e", ":", ":", " ", "m", "e", "d", "i", "a", "/", "a", ".", "p", "n", "g", "\n">>,
      <<".", ".", " ", "i", "m", "a", "g", "e", ":", ":", " ", "d", "/">>,
      <<"i", "m", "a", "g", "e", ":", ":", "m", "e", "d", "i", "a", "/", "a", ".", "p", "n", "g", "[", "a", "l", "t", "]">>,
      <<"i", "m", "a", "g", "e", ":", ":", "d", "/", "[", "]">>,
      <<"i", "m", "a", "g", "e", ":", ":", "[", "x", "]">>,
      <<" ", "p", " ">>,
      <<"\r", "\n">>,
      <<"0xFF">> }

\* the number of fragments of a file
MaxFragments == 2

RECURSIVE TextsOf(_)
TextsOf(n) ==
    IF n = 0 THEN {<<>>}
    ELSE TextsOf(n - 1) \cup
         {t \o f : t \in {u \in TextsOf(n - 1) : u # <<>> \/ n = 1},
                   f \in Fragments}

\* one output format of each branch of fix_image_paths_in_file
RewriteFormats == {"html", "markdown", "rst", "asciidoc", "org"}

FixCalls ==
    {[fn |-> "fix_image_paths_in_file", content |-> c, fmt |-> f,
      runs |-> 0, once |-> <<>>, twice |-> <<>>, ok |-> TRUE] :
        c \in TextsOf(MaxFragments), f \in RewriteFormats}

\* the success branch of convert_files on the text of the converted file:
\* the file after the branch and whether fix_image_paths_in_file was called
\* on it; a call that raises leaves the file as it was
success_branch(content, fmt, moved_media_files) ==
    IF applies_rewriting(fmt, moved_media_files)
    THEN [fixed |-> TRUE,
          content |-> fix_image_paths_in_text_file(content, fmt).content]
    ELSE [fixed |-> FALSE, content |-> content]

\* output formats of the branch: text-based with and without a rewriting
\* pattern, and not text-based
BranchFormats ==
    {"html", "markdown", "rst", "asciidoc", "org", "plain", "latex", "docx"}

\* the branch on a file and on what organize_media_files returned
BranchCalls ==
    {[fn |-> "success_branch", content |-> c, fmt |-> f, moved |-> m,
      runs |-> 0, fixed |-> FALSE, after |-> <<>>] :
        c \in TextsOf(MaxFragments), f \in BranchFormats,
        m \in {<<>>, <<"img/a.png">>}}

InitFix ==
    /\ BatchInit
    /\ call \in FixCalls \cup BranchCalls

\* fix_image_paths_in_file on the file as the engine wrote it
CallFixFirst ==
    /\ call.fn = "fix_image_paths_in_file" /\ call.runs = 0
    /\ \E r \in {fix_image_paths_in_text_file(call.content, call.fmt)} :
        call' = [call EXCEPT !.runs = 1, !.once = r.content, !.ok = r.ok]
    /\ UNCHANGED batch_vars

\* fix_image_paths_in_file on the file the first call left
CallFixSecond ==
    /\ call.fn = "fix_image_paths_in_file" /\ call.runs = 1
    /\ \E r \in {fix_image_paths_in_text_file(call.once, call.fmt)} :
        call' = [call EXCEPT !.runs = 2, !.twice = r.content, !.ok = r.ok]
    /\ UNCHANGED batch_vars

\* the branch for a file whose relocation step moved nothing
CallBranchNoMedia ==
    /\ call.fn = "success_branch" /\ call.runs = 0 /\ call.moved = <<>>
    /\ \E r \in {success_branch(call.content, call.fmt, call.moved)} :
        call' = [call EXCEPT !.runs = 1, !.fixed = r.fixed,
                             !.after = r.content]
    /\ UNCHANGED batch_vars

\* the branch for a file whose relocation step moved a media file
CallBranchMedia ==
    /\ call.fn = "success_branch" /\ call.runs = 0 /\ call.moved # <<>>
    /\ \E r \in {success_branch(call.content, call.fmt, call.moved)} :
        call' = [call EXCEPT !.runs = 1, !.fixed = r.fixed,
                             !.after = r.content]
    /\ UNCHANGED batch_vars

NextFix ==
    \/ CallFixFirst
    \/ CallFixSecond
    \/ CallBranchNoMedia
    \/ CallBranchMedia

SpecFix == InitFix /\ [][NextFix]_vars

----------------------------------------------------------------------------
(* Concurrent requests: the paths convert_files touches *)

\* the number of requests handled at the same time
MaxRequests == 2

Requests == 1..MaxRequests

\* values uuid.uuid4() may return
SessionIds == {"s1", "s2", "s3"}

\* uuid4 if a value could be returned twice
uuid4_repeating(used) == SessionIds

\* uuid.uuid4(): a value that has not been returned before
uuid4(used) == SessionIds \ used

OUTPUT_FOLDER == "output"

\* os.path.join(OUTPUT_FOLDER, session_id) and the paths below it
SessionDir(session_id) == <<OUTPUT_FOLDER, session_id>>

SubDir(session_id, name) == SessionDir(session_id) \o <<name>>

ZipPath(session_id) ==
    SessionDir(session_id) \o <<"converted_files_" \o session_id \o ".zip">>

\* the path p lies in the directory d or below it
Under(p, d) == Len(p) > Len(d) /\ SubSeq(p, 1, Len(d)) = d

\* the files of the file system in or below the directory d
FilesUnder(fs, d) == {f \in fs : Under(f.path, d)}

\* the file system after the request r wrote the paths ps
Written(fs, ps, r) ==
    {f \in fs : f.path \notin ps} \cup {[path |-> p, by |-> r] : p \in ps}

\* the accesses of request r to the paths ps
Touched(r, ps) == {[req |-> r, path |-> p] : p \in ps}

\* names of the uploads of the concurrent requests
SessionUploads ==
    { <<"a", ".", "m", "d">>,
      <<"s", "l", "i", "d", "e", "s", ".", "p", "p", "t", "x">> }

NewRequest == [pc |-> "new", sid |-> "", name |-> <<>>]

InitSessions ==
    /\ BatchInit
    /\ call = [fn |-> "sessions", used |-> {}, fs |-> {}, log |-> {},
               req |-> [r \in Requests |-> NewRequest]]

\* the session directory and its four subdirectories are made
SessStart(r) ==
    /\ call.fn = "sessions" /\ call.req[r].pc = "new"
    /\ \E id \in uuid4(call.used), u \in SessionUploads :
        call' = [call EXCEPT
            !.used = @ \cup {id},
            !.req[r] = [pc |-> "started", sid |-> id, name |-> u],
            !.log = @ \cup Touched(r,
                {SessionDir(id), SubDir(id, "uploads"),
                 SubDir(id, "converted"), SubDir(id, "media"),
                 SubDir(id, "img")})]
    /\ UNCHANGED batch_vars

\* file.save(input_path)
SessSave(r) ==
    /\ call.fn = "sessions" /\ call.req[r].pc = "started"
    /\ \E p \in {SubDir(call.req[r].sid, "uploads")
                 \o <<Join(secure_filename(call.req[r].name))>>} :
        call' = [call EXCEPT
            !.req[r].pc = "saved",
            !.fs = Written(@, {p}, r),
            !.log = @ \cup Touched(r, {p})]
    /\ UNCHANGED batch_vars

\* preprocess_special_formats and convert_file_with_pandoc: a pptx upload
\* is first written as temp_converted.md in the uploads directory; the
\* engine writes the output and extracts one image
SessConvert(r) ==
    /\ call.fn = "sessions" /\ call.req[r].pc = "saved"
    /\ \E ps \in {
            {SubDir(call.req[r].sid, "converted")
                \o <<output_filename_of(secure_filename(call.req[r].name),
                                        "html")>>,
             SubDir(call.req[r].sid, "media") \o <<"media", "image1.png">>}
            \cup
            (IF get_input_format(secure_filename(call.req[r].name)).val
                    \in {"pdf", "pptx"}
             THEN {SubDir(call.req[r].sid, "uploads")
                    \o <<"temp_converted.md">>}
             ELSE {})} :
        call' = [call EXCEPT
            !.req[r].pc = "converted",
            !.fs = Written(@, ps, r),
            !.log = @ \cup Touched(r, ps)
                      \cup Touched(r, {f.path :
                            f \in FilesUnder(call.fs,
                                SubDir(call.req[r].sid, "uploads"))})]
    /\ UNCHANGED batch_vars

\* organize_media_files: whatever os.walk finds below the media directory
\* of the request is moved into its img directory
SessOrganize(r) ==
    /\ call.fn = "sessions" /\ call.req[r].pc = "converted"
    /\ \E found \in {FilesUnder(call.fs, SubDir(call.req[r].sid, "media"))} :
        call' = [call EXCEPT
            !.req[r].pc = "organized",
            !.fs = (@ \ found) \cup
                   {[path |-> SubDir(call.req[r].sid, "img")
                                \o <<f.path[Len(f.path)]>>,
                     by |-> f.by] : f \in found},
            !.log = @ \cup Touched(r, {f.path : f \in found})
                      \cup Touched(r, {SubDir(call.req[r].sid, "img")
                                \o <<f.path[Len(f.path)]>> : f \in found})]
    /\ UNCHANGED batch_vars

\* the archive is written from the listing of the converted directory and
\* the walk of the img directory
SessArchive(r) ==
    /\ call.fn = "sessions" /\ call.req[r].pc = "organized"
    /\ \E members \in {FilesUnder(call.fs, SubDir(call.req[r].sid, "converted"))
                       \cup FilesUnder(call.fs, SubDir(call.req[r].sid, "img"))} :
        call' = [call EXCEPT
            !.req[r].pc = "archived",
            !.fs = {f \in @ : f.path # ZipPath(call.req[r].sid)} \cup
                   {[path |-> ZipPath(call.req[r].sid), by |-> r,
                     members |-> members]},
            !.log = @ \cup Touched(r, {f.path : f \in members})
                      \cup Touched(r, {ZipPath(call.req[r].sid)})]
    /\ UNCHANGED batch_vars

\* shutil.rmtree(uploads_dir, ignore_errors=True)
SessCleanup(r) ==
    /\ call.fn = "sessions" /\ call.req[r].pc = "archived"
    /\ \E gone \in {FilesUnder(call.fs, SubDir(call.req[r].sid, "uploads"))} :
        call' = [call EXCEPT
            !.req[r].pc = "cleaned",
            !.fs = @ \ gone,
            !.log = @ \cup Touched(r, {f.path : f \in gone})]
    /\ UNCHANGED batch_vars

\* send_file(zip_path)
SessSend(r) ==
    /\ call.fn = "sessions" /\ call.req[r].pc = "cleaned"
    /\ call' = [call EXCEPT
            !.req[r].pc = "sent",
            !.log = @ \cup Touched(r, {ZipPath(call.req[r].sid)})]
    /\ UNCHANGED batch_vars

NextSessions ==
    \/ \E r \in Requests : SessStart(r)
    \/ \E r \in Requests : SessSave(r)
    \/ \E r \in Requests : SessConvert(r)
    \/ \E r \in Requests : SessOrganize(r)
    \/ \E r \in Requests : SessArchive(r)
    \/ \E r \in Requests : SessCleanup(r)
    \/ \E r \in Requests : SessSend(r)

SpecSessions == InitSessions /\ [][NextSessions]_vars

----------------------------------------------------------------------------
(* The request handler as a state machine *)

Init ==
    /\ BatchInit
    /\ call = [fn |-> "none", word |-> <<>>, arg |-> <<>>, twin |-> <<>>,
               done |-> FALSE, ret |-> Pending, ret_twin |-> Pending]

Next ==
    \/ RejectRequest
    \/ StartBatch
    \/ PassInvalidFile
    \/ PassRaises
    \/ PassExtractionFails
    \/ PassEngineFails
    \/ PassValidationFails
    \/ PassSucceeds
    \/ PassEngineHangs
    \/ FinishNoSuccess
    \/ FinishWithArchive

Spec == Init /\ [][Next]_vars

\* the handler runs on its own thread until it returns or blocks
SpecLive == Spec /\ WF_vars(Next)

----------------------------------------------------------------------------
(* Properties of the batch loop *)

\* the upload is accepted by allowed_file and its sanitised name makes
\* get_input_format raise
RaisesOn(upload) ==
    /\ allowed_file(upload)
    /\ ~get_input_format(secure_filename(upload)).ok

\* part occurs in msg as a run of consecutive pieces starting at pos
OccursAt(msg, part, pos) ==
    /\ pos + Len(part) - 1 <= Len(msg)
    /\ SubSeq(msg, pos, pos + Len(part) - 1) = part

Contains(msg, part) == \E pos \in 1..Len(msg) : OccursAt(msg, part, pos)

\* every member of parts occurs in msg, one after the other
ContainsInOrder(msg, parts) ==
    \E at \in [DOMAIN parts -> 1..Len(msg)] :
        \A k \in DOMAIN parts :
            /\ OccursAt(msg, parts[k], at[k])
            /\ k > 1 => at[k] >= at[k - 1] + Len(parts[k - 1])

\* the uploads that were added to the succeeded-file list
Succeeded == {i \in DOMAIN outcomes : outcomes[i].kind = "ok"}

\* the place in conversion_errors of the error recorded for upload i
ErrorIndex(i) == Cardinality({k \in 1..i : outcomes[k].kind # "ok"})

\* the loop has run to its end: the handler answered from below the loop
LoopCompleted ==
    /\ pc = "done"
    /\ output_format # ""
    /\ response.status # 500

\* C1: in every pass of the loop whose upload does not make get_input_format
\* raise and whose engine call, if one is made, returns, the loop goes on to the next upload and the pass either appends
\* one output to converted_files or appends one message to
\* conversion_errors; an upload with a disallowed extension and an upload
\* whose engine run failed are recorded as errors; the handler answers from
\* below the loop only after every upload has been consumed.
C1_FailureRecordedLoopContinues ==
    [][/\ (/\ pc = "loop" /\ idx < Len(files) /\ ~RaisesOn(files[idx + 1])
           /\ pc' # "engine") =>
            /\ pc' = "loop"
            /\ idx' = idx + 1
            /\ \/ /\ Len(converted_files') = Len(converted_files) + 1
                  /\ conversion_errors' = conversion_errors
               \/ /\ converted_files' = converted_files
                  /\ Len(conversion_errors') = Len(conversion_errors) + 1
                  /\ SubSeq(conversion_errors', 1, Len(conversion_errors))
                        = conversion_errors
            /\ (~allowed_file(files[idx + 1])
                \/ outcomes'[idx + 1].exit \in EngineExits \ {"ok"}
                \/ outcomes'[idx + 1].kind \in {"preprocess", "validation"})
                    => Len(conversion_errors') = Len(conversion_errors) + 1
       /\ (pc = "loop" /\ pc' = "done" /\ response'.status # 500) =>
            idx = Len(files)]_vars

\* a first upload whose engine run failed, followed by an upload that was
\* converted
C1_Witness ==
    /\ Len(files) = 2 /\ idx = 2
    /\ outcomes[1].kind = "engine"
    /\ Len(conversion_errors) = 1
    /\ outcomes[2].kind = "ok"
    /\ Len(converted_files) = 1

\* C2: when the handler has answered a batch with at least one converted
\* file and at least one recorded error, the response is a success that
\* carries every converted file and every recorded error.
C2_PartialSuccessCarriesFailures ==
    (LoopCompleted /\ converted_files # <<>> /\ conversion_errors # <<>>) =>
        /\ response.status = 200
        /\ \A k \in DOMAIN converted_files :
                converted_files[k] \in DOMAIN response.zip
        /\ \A k \in DOMAIN conversion_errors :
                Contains(response.error, conversion_errors[k])

\* C3: after the loop the response is the failure (status 400) exactly when
\* converted_files is empty, however many errors were recorded, and the
\* failure message then contains every recorded error in the order of the
\* uploads.
C3_FailureIffNoSuccess ==
    LoopCompleted =>
        /\ response.status \in {200, 400}
        /\ response.status = 400 <=> converted_files = <<>>
        /\ response.status = 400 =>
                /\ Len(conversion_errors) = Len(files)
                /\ ContainsInOrder(response.error, conversion_errors)

\* a failed batch of two uploads with two different errors
C3_Witness ==
    /\ LoopCompleted
    /\ response.status = 400
    /\ Len(conversion_errors) = 2
    /\ conversion_errors[1] # conversion_errors[2]

\* C4: a pass in which the engine exited cleanly and validate_output_file
\* rejects the file at the output path appends nothing to converted_files
\* and appends to conversion_errors the message made of the saved name and
\* "Conversion completed but validation failed: " with the validator's
\* reason.
C4_InvalidOutputNeverSucceeds ==
    [][(/\ pc = "loop" /\ idx < Len(files) /\ idx' = idx + 1
        /\ outcomes'[idx + 1].exit = "ok"
        /\ ~validate_output_file(converted_dir', outcomes'[idx + 1].out,
                                 output_format).ok) =>
            /\ converted_files' = converted_files
            /\ conversion_errors' =
                Append(conversion_errors,
                    <<Join(secure_filename(files[idx + 1])), ": ",
                      "Conversion completed but validation failed: ">>
                    \o validate_output_file(converted_dir',
                            outcomes'[idx + 1].out, output_format).msg)
       ]_vars

\* the engine exited cleanly, left a file at the output path, and the file
\* was rejected
C4_Witness ==
    /\ idx = 1
    /\ outcomes[1].exit = "ok"
    /\ outcomes[1].out \in DOMAIN converted_dir
    /\ ~validate_output_file(converted_dir, outcomes[1].out,
                             output_format).ok
    /\ converted_files = <<>>
    /\ Len(conversion_errors) = 1

\* C5: the archive of a successful batch holds, outside img/, only outputs
\* written for uploads of the succeeded-file list, one member for each name
\* of that list, and under img/ the files of the img directory.
C5_ArchiveHoldsOnlySucceeded ==
    (LoopCompleted /\ response.status = 200) =>
        /\ \A n \in DOMAIN converted_dir :
                /\ n \in DOMAIN response.zip
                /\ response.zip[n].src \in Succeeded
        /\ \A k \in DOMAIN converted_files :
                converted_files[k] \in DOMAIN response.zip
        /\ Cardinality(DOMAIN response.zip) =
                Cardinality({converted_files[k] : k \in DOMAIN converted_files})
                + Cardinality(DOMAIN img_dir)

\* the error recorded for upload i, without the saved name in front of it
ErrorOf(i) ==
    SubSeq(conversion_errors[ErrorIndex(i)], 3,
           Len(conversion_errors[ErrorIndex(i)]))

\* C6 as stated: the error of an upload whose engine run exited non-zero
\* starts with "engine error: ", that of an upload run without the engine
\* binary starts with "engine not available: ".
C6_EngineErrorPrefixes ==
    \A i \in DOMAIN outcomes :
        /\ outcomes[i].exit = "nonzero" => Head(ErrorOf(i)) = "engine error: "
        /\ outcomes[i].exit = "missing" =>
                Head(ErrorOf(i)) = "engine not available: "

\* C6 (amended): the error of an upload whose engine run exited non-zero is
\* "Pandoc error: " followed by the engine's stderr, that of an upload run
\* without the engine binary is "Pandoc is not installed or not found in
\* PATH"; a batch of that one upload ends in the failure response and the
\* message contains that error.
C6_PandocErrorStrings ==
    \A i \in DOMAIN outcomes :
        /\ outcomes[i].exit = "nonzero" =>
                ErrorOf(i) = <<"Pandoc error: ", "<stderr>">>
        /\ outcomes[i].exit = "missing" =>
                ErrorOf(i) = <<"Pandoc is not installed or not found in PATH">>
        /\ (outcomes[i].exit \in {"nonzero", "missing"}
            /\ Len(files) = 1 /\ pc = "done") =>
                /\ response.status = 400
                /\ Contains(response.error, ErrorOf(i))

\* a batch of one upload answered after the engine exited non-zero
C6_Witness ==
    /\ pc = "done" /\ Len(files) = 1 /\ Len(outcomes) = 1
    /\ outcomes[1].exit = "nonzero"
    /\ response.status = 400

\* the base name convert_files derives from each upload name of the model
ExpectedBase(upload) ==
    IF upload = <<"r", "e", "p", "o", "r", "t", ".", "m", "d">>
    THEN "report"
    ELSE IF upload = <<"a", ".", "m", "d">> THEN "a"
    ELSE IF upload = <<"b", "a", "d", ".", "d", "o", "c", "x">>
    THEN "bad"
    ELSE IF upload = <<"s", "l", "i", "d", "e", "s", ".", "p", "p", "t", "x">>
    THEN "slides"
    ELSE IF upload = <<"m", "y", " ", "r", "e", "p", "o", "r", "t", ".", "m", "d">>
    THEN "my_report"
    ELSE IF upload = <<"s", "c", "a", "n", ".", "P", "D", "F">> THEN "scan"
    ELSE "?"

\* the conventional extension of each output format the model requests
ExpectedExtension(fmt) ==
    IF fmt = "docx" THEN "docx"
    ELSE IF fmt = "html" THEN "html"
    ELSE IF fmt = "plain" THEN "txt"
    ELSE fmt

\* C10: the output filename of every upload handed to the engine is the
\* base name of the saved upload, a dot and the extension of the canonical
\* output format, which is the format tag itself for a format without an
\* entry in the extension table; the batch of report.md alone requested as
\* "word" is converted as docx and, when the engine succeeds, ends with
\* converted_files = <<"report.docx">>.
C10_OutputFilename ==
    /\ \A i \in DOMAIN outcomes :
            outcomes[i].exit # "not run" =>
                outcomes[i].out =
                    ExpectedBase(files[i]) \o "." \o
                    ExpectedExtension(output_format)
    /\ (/\ files = << <<"r", "e", "p", "o", "r", "t", ".", "m", "d">> >>
        /\ raw_format = <<"w", "o", "r", "d">>
        /\ pc = "done" /\ outcomes[1].kind = "ok") =>
            /\ output_format = "docx"
            /\ converted_files = <<"report.docx">>
            /\ DOMAIN converted_dir = {"report.docx"}

\* report.md requested as "word" and converted
C10_Witness ==
    /\ files = << <<"r", "e", "p", "o", "r", "t", ".", "m", "d">> >>
    /\ raw_format = <<"w", "o", "r", "d">>
    /\ pc = "done"
    /\ converted_files = <<"report.docx">>

\* an upload converted to a format that has no entry in the extension table
C10_WitnessFallback ==
    /\ output_format = "unknown"
    /\ converted_files = <<"my_report.unknown">>

----------------------------------------------------------------------------
(* Properties of the format registry *)

\* the lower-cased text after the last dot of a name that has a dot
ExtensionOf(name) == Join(lower(SubSeq(name, LastDot(name) + 1, Len(name))))

\* the tag the extension table gives for the extensions of the model's
\* filenames; any other extension has the default
ExpectedInputTag(ext) ==
    IF ext \in {"md", "txt"} THEN "markdown"
    ELSE IF ext = "htm" THEN "html"
    ELSE IF ext = "xml" THEN "docbook"
    ELSE IF ext = "tex" THEN "latex"
    ELSE IF ext \in {"pdf", "pptx", "docx", "html"} THEN ext
    ELSE "markdown"

\* C7: get_input_format returns for every filename: the mapped tag when the
\* lower-cased text after the last dot is a key of the table, 'markdown'
\* for every other filename, one without a dot included.
C7_GetInputFormatTotal ==
    (call.fn = "get_input_format" /\ call.done) =>
        /\ call.ret.ok
        /\ call.ret.val =
            IF LastDot(call.arg) = 0 THEN "markdown"
            ELSE ExpectedInputTag(ExtensionOf(call.arg))

\* the result the claim gives for the words of the model: the five aliases
\* it names, and the lower-cased input for anything else
ExpectedOutputFormat(user_format) ==
    IF Join(lower(user_format)) \in {"txt", "text", "plaintext"} THEN "plain"
    ELSE IF Join(lower(user_format)) = "word" THEN "docx"
    ELSE IF Join(lower(user_format)) = "powerpoint" THEN "pptx"
    ELSE Join(lower(user_format))

\* C8: map_output_format returns for every string: 'plain' for 'txt', 'text'
\* and 'plaintext', 'docx' for 'word', 'pptx' for 'powerpoint', in any
\* letter case, and the lower-cased input for 'pdf', 'html', 'docx',
\* 'unknown' and for every padded string, none of which is an alias.
C8_MapOutputFormatAliases ==
    (call.fn = "map_output_format" /\ call.done) =>
        /\ call.ret.ok
        /\ call.ret.val = ExpectedOutputFormat(call.arg)

\* an alias written in capitals is resolved
C8_Witness ==
    /\ call.fn = "map_output_format" /\ call.done
    /\ call.arg = <<"T", "X", "T">>
    /\ call.ret.val = "plain"

\* a string that is no alias comes back lower-cased
C8_WitnessFallback ==
    /\ call.fn = "map_output_format" /\ call.done
    /\ call.arg = <<"U", "n", "k", "n", "o", "w", "n">>
    /\ call.ret.val = "unknown"

\* C9 as stated: map_output_format gives the same result for two strings
\* that differ only in letter case or in leading and trailing whitespace.
C9_MapOutputFormatInsensitive ==
    (call.fn = "map_output_format" /\ call.done) =>
        call.ret = call.ret_twin

\* C9 (amended): map_output_format gives the same result for two strings
\* that differ only in letter case; the resolution at the head of
\* convert_files (strip, lower-case, map_output_format) gives the same
\* canonical result for two strings that differ only in letter case or in
\* leading and trailing whitespace.
C9_ResolutionInsensitive ==
    /\ (call.fn = "map_output_format" /\ call.done
        /\ lower(call.arg) = lower(call.twin)) =>
            call.ret = call.ret_twin
    /\ (call.fn = "resolve_output_format" /\ call.done) =>
            /\ call.ret.ok
            /\ call.ret = call.ret_twin

\* two spellings of "word" that differ in case and in padding resolve to
\* docx
C9_Witness ==
    /\ call.fn = "resolve_output_format" /\ call.done
    /\ call.arg = <<" ", "W", "O", "R", "D">>
    /\ call.twin = <<"w", "o", "r", "d", "\t">>
    /\ call.ret.val = "docx"
    /\ call.ret_twin.val = "docx"

----------------------------------------------------------------------------
(* Properties of validate_output_file *)

\* validate_output_file has returned for the call of the state
Validated == call.fn = "validate_output_file" /\ call.done

\* C11: for every output format, validate_output_file returns a pair whose
\* first member is False when the output path does not exist and when the
\* file has size zero.
C11_MissingOrEmptyRejected ==
    Validated =>
        /\ call.ret.ok \in BOOLEAN
        /\ (~call.exists \/ getsize(call.content) = 0) => ~call.ret.ok

\* a zero-byte file declared as a text format has been rejected
C11_Witness ==
    /\ Validated
    /\ call.exists /\ call.content = <<>>
    /\ call.fmt = "html"
    /\ ~call.ret.ok

\* a path that does not exist, declared as a binary format, has been
\* rejected
C11_WitnessMissing ==
    /\ Validated
    /\ ~call.exists
    /\ call.fmt = "pdf"
    /\ ~call.ret.ok

\* the first 100 characters of the content are blank
FirstChunkBlank(content) ==
    \A k \in 1..Len(content) :
        k <= 100 => content[k] \in {" ", "\t", "\n"}

ClaimedBinary == {"pdf", "docx", "pptx", "odt", "epub", "mobi", "fb2"}

C12_WitnessFallback ==
    /\ Validated
    /\ call.exists
    /\ call.fmt = "html"
    /\ call.content = Rep("0xFF", 10)
    /\ ~call.ret.ok

----------------------------------------------------------------------------
(* Properties of organize_media_files *)

Organized == call.fn = "organize_media_files" /\ call.done

\* the file of the extraction directory that os.walk yields at place k
WalkedFile(k) == CHOOSE m \in call.media : PathOf(m) = call.order[k]

\* the names in the img directory when the file at place k is moved
TakenBefore(k) ==
    DOMAIN call.img \cup {call.ret.moved[i] : i \in 1..(k - 1)}

\* the name <base>_<j><ext>, the basename itself for j = 0
Suffixed(m, j) ==
    IF j = 0 THEN m.stem \o m.ext
    ELSE m.stem \o "_" \o ToString(j) \o m.ext

\* no two files of the extraction directory share a basename and none
\* bears a name of the img directory
NoCollision ==
    /\ \A m, n \in call.media :
        (m.stem = n.stem /\ m.ext = n.ext) => m = n
    /\ \A m \in call.media : m.stem \o m.ext \notin DOMAIN call.img

\* C13: organize_media_files empties the extraction directory into the img
\* directory: one entry per file in the returned list, which names exactly
\* the files added; a file keeps its basename when that is free and
\* otherwise gets <base>_<k><ext> for the smallest free k >= 1; files that
\* were in the img directory are untouched and every moved file keeps its
\* content.
C13_MediaRelocated ==
    Organized =>
        /\ call.ret.media = {}
        /\ Len(call.ret.moved) = Cardinality(call.media)
        /\ DOMAIN call.ret.img =
            DOMAIN call.img \cup
            {call.ret.moved[k] : k \in DOMAIN call.ret.moved}
        /\ Cardinality(DOMAIN call.ret.img) =
            Cardinality(DOMAIN call.img) + Cardinality(call.media)
        /\ \A n \in DOMAIN call.img : call.ret.img[n] = call.img[n]
        /\ \A k \in DOMAIN call.ret.moved :
            /\ call.ret.moved[k] \notin TakenBefore(k)
            /\ call.ret.img[call.ret.moved[k]].src = WalkedFile(k).src
            /\ \E j \in 0..Cardinality(TakenBefore(k)) :
                /\ call.ret.moved[k] = Suffixed(WalkedFile(k), j)
                /\ \A i \in 0..(j - 1) :
                    Suffixed(WalkedFile(k), i) \in TakenBefore(k)
        /\ NoCollision =>
            \A k \in DOMAIN call.ret.moved :
                call.ret.moved[k] = Suffixed(WalkedFile(k), 0)

\* image1.png and image1_1.png were in the img directory, and an extracted
\* image1.png has been stored as image1_2.png
C13_Witness ==
    /\ Organized
    /\ DOMAIN call.img = {"image1.png", "image1_1.png"}
    /\ \E k \in DOMAIN call.ret.moved :
        /\ WalkedFile(k).stem = "image1"
        /\ call.ret.moved[k] = "image1_2.png"
    /\ Len(call.ret.moved) >= 3

\* four files at three depths, two with one basename, moved into an empty
\* img directory
C13_WitnessDepth ==
    /\ Organized
    /\ call.img = <<>>
    /\ Len(call.ret.moved) = 4
    /\ "README" \in DOMAIN call.ret.img
    /\ "image1_1_1.png" \in DOMAIN call.ret.img

----------------------------------------------------------------------------
(* Properties of fix_image_paths_in_file *)

\* fix_image_paths_in_file has been applied twice to the file
FixedTwice == call.fn = "fix_image_paths_in_file" /\ call.runs = 2

\* the text t occurs in s
OccursIn(s, t) == \E i \in 1..Len(s) : LiteralAt(s, t, i)

\* C14: applying fix_image_paths_in_file to a file it has already
\* rewritten leaves the content of the file unchanged, for the output
\* formats of each of the four syntaxes.
C14_RewriteIdempotent ==
    FixedTwice => call.twice = call.once

\* an HTML file with a src attribute into the extraction directory was
\* rewritten by the first call and left alone by the second
C14_Witness ==
    /\ FixedTwice
    /\ call.fmt = "html"
    /\ OccursIn(call.content, <<"s", "r", "c", "=", "\"", "m", "e", "d", "i", "a", "/", "a", ".", "p", "n", "g", "\"">>)
    /\ OccursIn(call.once, <<"s", "r", "c", "=", "\"", "i", "m", "g", "/", "a", ".", "p", "n", "g", "\"">>)
    /\ call.once # call.content
    /\ call.twice = call.once

\* the same for the Markdown, reStructuredText and AsciiDoc syntaxes
C14_WitnessMarkdown ==
    /\ FixedTwice
    /\ call.fmt = "markdown"
    /\ OccursIn(call.content, <<"!", "[", "a", "l", "t", "]", "(", "m", "e", "d", "i", "a", "/", "a", ".", "p", "n", "g", ")">>)
    /\ OccursIn(call.once, <<"!", "[", "a", "l", "t", "]", "(", "i", "m", "g", "/", "a", ".", "p", "n", "g", ")">>)
    /\ call.twice = call.once

C14_WitnessRst ==
    /\ FixedTwice
    /\ call.fmt = "rst"
    /\ OccursIn(call.content, <<".", ".", " ", "i", "m", "a", "g", "e", ":", ":", " ", "m", "e", "d", "i", "a", "/", "a", ".", "p", "n", "g">>)
    /\ OccursIn(call.once, <<".", ".", " ", "i", "m", "a", "g", "e", ":", ":", " ", "i", "m", "g", "/", "a", ".", "p", "n", "g">>)
    /\ call.twice = call.once

C14_WitnessAsciidoc ==
    /\ FixedTwice
    /\ call.fmt = "asciidoc"
    /\ OccursIn(call.content, <<"i", "m", "a", "g", "e", ":", ":", "m", "e", "d", "i", "a", "/", "a", ".", "p", "n", "g", "[", "a", "l", "t", "]">>)
    /\ OccursIn(call.once, <<"i", "m", "a", "g", "e", ":", ":", "i", "m", "g", "/", "a", ".", "p", "n", "g", "[", "a", "l", "t", "]">>)
    /\ call.twice = call.once

----------------------------------------------------------------------------
(* Properties of the success branch of the loop *)

\* the outcome of the pass just made
LastOutcome == outcomes'[Len(outcomes')]

\* C15: in every pass whose engine run exited cleanly and whose output
\* passes validate_output_file, the output is appended to converted_files
\* and nothing is appended to conversion_errors, whether or not
\* organize_media_files moved every file and whether or not
\* fix_image_paths_in_file could rewrite the output.
C15_MediaFailureNeverFailsFile ==
    [][(/\ pc = "loop"
        /\ Len(outcomes') = Len(outcomes) + 1
        /\ LastOutcome.exit = "ok"
        /\ validate_output_file(converted_dir', LastOutcome.out,
                                output_format).ok)
       => /\ LastOutcome.kind = "ok"
          /\ converted_files' = Append(converted_files, LastOutcome.out)
          /\ conversion_errors' = conversion_errors]_vars

\* a file was added to converted_files although organize_media_files left
\* an extracted file behind in the extraction directory
C15_Witness ==
    /\ outcomes # <<>>
    /\ outcomes[Len(outcomes)].kind = "ok"
    /\ Len(converted_files) = Cardinality(Succeeded)
    /\ media_dir # {}
    /\ img_dir = <<>>

\* a file was added to converted_files although fix_image_paths_in_file
\* could not decode it: its media were moved and its references still point
\* into the extraction directory
C15_WitnessRewrite ==
    /\ outcomes # <<>>
    /\ outcomes[Len(outcomes)].kind = "ok"
    /\ output_format \in text_based_formats
    /\ img_dir # <<>>
    /\ \E out \in DOMAIN converted_dir :
        /\ out = converted_files[Len(converted_files)]
        /\ ~converted_dir[out].utf8
        /\ converted_dir[out].refs # <<>>
        /\ converted_dir[out].refs[1][1] # "img"

----------------------------------------------------------------------------
(* Properties of concurrent requests *)

\* the requests that have made their session directory
StartedRequests ==
    IF call.fn = "sessions"
    THEN {r \in DOMAIN call.req : call.req[r].pc # "new"}
    ELSE {}

\* C16: requests handled at the same time have different session
\* directories; every path a request reads, writes, moves, removes or
\* packages is its own session directory or lies below it and is touched
\* by no other request; every file a request packages was written by that
\* request.
C16_SessionsIsolated ==
    call.fn = "sessions" =>
        /\ \A r, s \in StartedRequests :
            r # s => call.req[r].sid # call.req[s].sid
        /\ \A a \in call.log :
            /\ \/ a.path = <<"output", call.req[a.req].sid>>
               \/ Under(a.path, <<"output", call.req[a.req].sid>>)
            /\ \A b \in call.log : b.path = a.path => b.req = a.req
        /\ \A f \in call.fs :
            "members" \in DOMAIN f =>
                \A m \in f.members : m.by = f.by

\* both requests uploaded a file of the same name and both have sent their
\* archive, which holds the output and the image of the request
C16_Witness ==
    /\ call.fn = "sessions"
    /\ \A r \in DOMAIN call.req : call.req[r].pc = "sent"
    /\ \E r, s \in DOMAIN call.req :
        r # s /\ call.req[r].name = call.req[s].name
    /\ \A f \in call.fs :
        "members" \in DOMAIN f => Cardinality(f.members) = 2

\* one request is between its engine run and the relocation of its media
\* while the other relocates its own
C16_WitnessInterleaved ==
    /\ call.fn = "sessions"
    /\ \E r, s \in DOMAIN call.req :
        /\ call.req[r].pc = "converted"
        /\ call.req[s].pc = "organized"

----------------------------------------------------------------------------
(* Properties of the resources of a batch *)

\* the handler has returned a response for a batch that was started
Delivered == pc = "done" /\ session_dir # {}

\* C17: after the result of a batch has been delivered, the session
\* directory with everything in it is eventually removed.
C17_WorkingDirsRemoved == Delivered ~> (session_dir = {})

\* C18: a handler that is waiting for the engine eventually leaves the
\* call and goes on to answer the request.
C18_EngineCallBounded == (pc = "engine") ~> (pc = "done")

----------------------------------------------------------------------------
(* Properties of allowed_file and get_input_format *)

\* the filename has a dot and the lower-cased text after its last dot is an
\* allowed extension
ExpectedAllowed(filename) ==
    /\ \E k \in DOMAIN filename : filename[k] = "."
    /\ ExtensionOf(filename) \in ALLOWED_EXTENSIONS

\* C19: allowed_file is true exactly for the filenames with a dot whose
\* lower-cased text after the last dot is in ALLOWED_EXTENSIONS, so it
\* accepts md, docx, pptx, pdf, html, xml and txt files and denies py and
\* jpg files; the pass of the loop for a file it denies appends 'Invalid
\* file type: <name>' and leaves the uploads and converted directories as
\* they were, and the pass for a file it accepts does not.
C19_AllowedFile ==
    (call.fn = "allowed_file" /\ call.done) =>
        /\ call.ret.val <=> ExpectedAllowed(call.arg)
        /\ (/\ LastDot(call.arg) # 0
            /\ ExtensionOf(call.arg) \in
                {"md", "docx", "pptx", "pdf", "html", "xml", "txt"})
           => call.ret.val
        /\ ExtensionOf(call.arg) \in {"py", "jpg"} => ~call.ret.val
        /\ ~call.ret.val =>
            /\ call.ret_twin.kind = "invalid"
            /\ call.ret_twin.error =
                <<"Invalid file type: ", Join(call.arg)>>
            /\ call.ret_twin.uploads = <<>>
            /\ call.ret_twin.converted = <<>>
        /\ call.ret.val =>
            /\ call.ret_twin.kind # "invalid"
            /\ call.ret_twin.uploads # <<>>

\* report.jpg was denied and recorded as an invalid file type
C19_Witness ==
    /\ call.fn = "allowed_file" /\ call.done
    /\ call.arg = <<"r", "e", "p", "o", "r", "t", ".", "j", "p", "g">>
    /\ ~call.ret.val
    /\ call.ret_twin.kind = "invalid"

\* README.Docx was accepted and saved
C19_WitnessAccepted ==
    /\ call.fn = "allowed_file" /\ call.done
    /\ call.arg = <<"R", "E", "A", "D", "M", "E", ".", "D", "o", "c", "x">>
    /\ call.ret.val
    /\ "README.Docx" \in DOMAIN call.ret_twin.uploads

\* C20: get_input_format returns 'plain' for every filename whose
\* extension is txt.
C20_TxtIsPlain ==
    (/\ call.fn = "get_input_format" /\ call.done
     /\ LastDot(call.arg) # 0
     /\ ExtensionOf(call.arg) = "txt")
    => (call.ret.ok /\ call.ret.val = "plain")

----------------------------------------------------------------------------
(* Properties of the success branch on the text of the converted file *)

BranchDone == call.fn = "success_branch" /\ call.runs = 1

\* C21: fix_image_paths_in_file is called on a converted file only if the
\* output format is text-based and organize_media_files returned at least
\* one moved file; in every other case the converted file holds, character
\* for character, what the engine wrote.
C21_RewriteOnlyWithMovedMedia ==
    BranchDone =>
        /\ call.fixed =>
            (call.fmt \in text_based_formats /\ call.moved # <<>>)
        /\ ~(call.fmt \in text_based_formats /\ call.moved # <<>>) =>
            call.after = call.content
        /\ call.after # call.content => call.fixed

SrcMedia ==
    <<"s", "r", "c", "=", "\"", "m", "e", "d", "i", "a", "/", "a", ".", "p", "n", "g", "\"">>

\* an html file with a reference into media/ and no moved media is left as
\* the engine wrote it
C21_Witness ==
    /\ BranchDone
    /\ call.fmt = "html" /\ call.moved = <<>>
    /\ call.content = SrcMedia
    /\ call.after = SrcMedia
    /\ ~call.fixed

\* the same file with a moved media file is rewritten
C21_WitnessRewritten ==
    /\ BranchDone
    /\ call.fmt = "html" /\ call.moved # <<>>
    /\ call.content = SrcMedia
    /\ call.after # SrcMedia
    /\ call.fixed

\* a docx output with moved media is left as the engine wrote it
C21_WitnessNotText ==
    /\ BranchDone
    /\ call.fmt = "docx" /\ call.moved # <<>>
    /\ call.content = <<"\r", "\n">>
    /\ call.after = call.content

----------------------------------------------------------------------------
(* Properties of the preprocessing step of the loop *)

\* the pass for the upload at idx + 1 has appended its outcome
PassRecorded == pc = "loop" /\ Len(outcomes') = Len(outcomes) + 1

\* the errors an extractor returns
ExtractionErrors(input_format) ==
    {extract_to_markdown(input_format, x).error :
        x \in ExtractorOutcomes \ {"ok"}}

C22_WitnessExtractionFailed ==
    /\ Len(outcomes) = 1
    /\ files[1] = <<"s", "l", "i", "d", "e", "s", ".", "p", "p", "t", "x">>
    /\ outcomes[1].kind = "preprocess"
    /\ outcomes[1].cmd = <<>>

\* a.md was handed to the engine as it was saved
C22_WitnessPassThrough ==
    /\ Len(outcomes) = 1
    /\ files[1] = <<"a", ".", "m", "d">>
    /\ outcomes[1].cmd # <<>>
    /\ outcomes[1].cmd[2] = "a.md"
    /\ outcomes[1].cmd[4] = "markdown"

----------------------------------------------------------------------------
(* Properties of the command convert_file_with_pandoc builds *)

CmdBuilt == call.fn = "convert_file_with_pandoc" /\ call.done

\* the base directive: pandoc <input> -f <from> -t <to> -o <output>
BaseLen == 8

HasExtractMedia(cmd) == \E k \in DOMAIN cmd : cmd[k] = "--extract-media"

\* what follows the base directive and the media-extraction request
FlagsOf(cmd) ==
    IF HasExtractMedia(cmd) THEN SubSeq(cmd, BaseLen + 3, Len(cmd))
    ELSE SubSeq(cmd, BaseLen + 1, Len(cmd))

\* C23: the command holds --extract-media exactly when the output format is
\* in media_supporting_formats or the input format is one of docx, pptx,
\* odt, epub, html; the request then stands directly after the base
\* directive, with the extraction directory, and before every
\* format-specific flag.
C23_MediaExtractionRequested ==
    CmdBuilt =>
        /\ HasExtractMedia(call.cmd) <=>
            \/ call.fmt \in media_supporting_formats
            \/ call.input_format \in {"docx", "pptx", "odt", "epub", "html"}
        /\ SubSeq(call.cmd, 1, BaseLen) =
            <<"pandoc", "in_1", "-f", call.input_format, "-t", call.fmt,
              "-o", "out_1">>
        /\ HasExtractMedia(call.cmd) =>
            /\ Len(call.cmd) >= BaseLen + 2
            /\ call.cmd[BaseLen + 1] = "--extract-media"
            /\ call.cmd[BaseLen + 2] = "media"
            /\ \A k \in DOMAIN call.cmd :
                call.cmd[k] = "--extract-media" => k = BaseLen + 1
            /\ call.cmd =
                SubSeq(call.cmd, 1, BaseLen + 2)
                    \o format_specific_flags(call.fmt)

\* a docx document converted to plain: requested for the input format
\* alone
C23_Witness ==
    /\ CmdBuilt
    /\ call.input_format = "docx" /\ call.fmt = "plain"
    /\ HasExtractMedia(call.cmd)

\* a markdown document converted to html: requested for the output format,
\* before --standalone
C23_WitnessOutput ==
    /\ CmdBuilt
    /\ call.input_format = "markdown" /\ call.fmt = "html"
    /\ call.cmd[BaseLen + 1] = "--extract-media"
    /\ call.cmd[BaseLen + 3] = "--standalone"

\* a markdown document converted to pdf: not requested
C23_WitnessNone ==
    /\ CmdBuilt
    /\ call.input_format = "markdown" /\ call.fmt = "pdf"
    /\ ~HasExtractMedia(call.cmd)
    /\ call.cmd[BaseLen + 1] = "--pdf-engine=xelatex"

\* C24: the format-specific flags of a command are a fixed ordered list
\* chosen by the output format alone: markdown gives --wrap=none, html
\* gives --standalone --self-contained, pdf gives --pdf-engine=xelatex, a
\* format without a branch gives none; two documents of different input
\* formats converted one after the other to the same output format get the
\* same flags.
C24_FlagsByOutputFormat ==
    CmdBuilt =>
        /\ FlagsOf(call.cmd) = FlagsOf(call.cmd_twin)
        /\ call.fmt = "markdown" => FlagsOf(call.cmd) = <<"--wrap=none">>
        /\ call.fmt = "html" =>
            FlagsOf(call.cmd) = <<"--standalone", "--self-contained">>
        /\ call.fmt = "pdf" =>
            FlagsOf(call.cmd) = <<"--pdf-engine=xelatex">>
        /\ call.fmt \notin DOMAIN format_flags => FlagsOf(call.cmd) = <<>>
        /\ call.fmt \in DOMAIN format_flags =>
            FlagsOf(call.cmd) = format_flags[call.fmt]

\* an html document and a markdown document converted to html
C24_Witness ==
    /\ CmdBuilt
    /\ call.input_format = "html" /\ call.input_twin = "markdown"
    /\ call.fmt = "html"
    /\ FlagsOf(call.cmd_twin) = <<"--standalone", "--self-contained">>

\* a format with no branch
C24_WitnessNoEntry ==
    /\ CmdBuilt
    /\ call.fmt = "unknown"
    /\ Len(call.cmd) = BaseLen

----------------------------------------------------------------------------
(* Properties of the destination format of the engine *)

\* the form value, trimmed and lower-cased
RequestedTag == Join(lower(strip(raw_format)))

\* C25: when the requested output format is a tag with a branch of its own
\* in the flag selection of convert_file_with_pandoc, map_output_format
\* returns it unchanged and every engine invocation of the batch has that
\* tag as its destination format.
C25_BranchTagsReachEngine ==
    (pc # "idle" /\ output_format # ""
     /\ RequestedTag \in DOMAIN format_flags) =>
        /\ output_format = RequestedTag
        /\ \A i \in DOMAIN outcomes :
            outcomes[i].cmd # <<>> => outcomes[i].cmd[6] = RequestedTag

----------------------------------------------------------------------------
(* Properties of the artifacts of a batch *)

\* C26: when the loop has ended, the files of the converted directory that
\* are outputs of succeeded uploads are as many as converted_files is long,
\* and the output of each succeeded upload is still the file the engine
\* wrote for that upload.
C26_OneArtifactPerSuccess ==
    LoopCompleted =>
        /\ Cardinality({n \in DOMAIN converted_dir :
                \E k \in DOMAIN converted_files : converted_files[k] = n})
            = Len(converted_files)
        /\ \A i \in Succeeded :
            /\ outcomes[i].out \in DOMAIN converted_dir
            /\ converted_dir[outcomes[i].out].src = i


\* C27: every reference of a succeeded upload's output that was rewritten
\* to img/<name> names a file of the img directory, and that file is the
\* relocated copy of the media file the engine extracted for that upload.
C27_RewrittenReferencesResolve ==
    \A i \in Succeeded :
        (/\ outcomes[i].out \in DOMAIN converted_dir
         /\ converted_dir[outcomes[i].out].src = i) =>
            \A k \in DOMAIN converted_dir[outcomes[i].out].refs :
                LET ref == converted_dir[outcomes[i].out].refs[k]
                IN  ref[1] = "img" =>
                        /\ ref[2] \in DOMAIN img_dir
                        /\ img_dir[ref[2]].src = i


\* C28: every file that the success step of an upload moves into the img
\* directory was extracted by the engine invocation of that upload.
C28_OnlyOwnMediaRelocated ==
    [][(PassRecorded /\ LastOutcome.kind = "ok") =>
        \A n \in DOMAIN img_dir' \ DOMAIN img_dir :
            img_dir'[n].src = idx + 1]_vars


\* C29: the pass of every upload that allowed_file accepts ends with the
\* upload in converted_files or with one message in conversion_errors; no
\* such pass raises out of the loop and no started batch is answered with
\* a 500 server error.
C29_AcceptedFilesNeverRaise ==
    /\ \A i \in DOMAIN outcomes :
        allowed_file(files[i]) => outcomes[i].kind # "raised"
    /\ response.status # 500

----------------------------------------------------------------------------
(* Properties of the two extension registries *)

AllowedCalled == call.fn = "allowed_file" /\ call.done

\* C30: ALLOWED_EXTENSIONS and the keys of the extension table of
\* get_input_format are the same set; for a filename allowed_file accepts
\* whose sanitised name kept its extension, get_input_format finds the
\* extension in the table and returns its entry, not the default.
C30_RegistriesAgree ==
    /\ ALLOWED_EXTENSIONS = DOMAIN input_format_mapping
    /\ (AllowedCalled /\ call.ret.val) =>
        LET filename == secure_filename(call.arg)
        IN  (/\ LastDot(filename) # 0
             /\ ExtensionOf(filename) = ExtensionOf(call.arg)) =>
                /\ ExtensionOf(filename) \in DOMAIN input_format_mapping
                /\ get_input_format(filename) =
                    [ok |-> TRUE,
                     val |-> input_format_mapping[ExtensionOf(filename)]]

\* README.Docx is accepted, keeps its extension and is found in the table
C30_Witness ==
    /\ AllowedCalled /\ call.ret.val
    /\ call.arg = <<"R", "E", "A", "D", "M", "E", ".", "D", "o", "c", "x">>
    /\ ExtensionOf(secure_filename(call.arg)) = "docx"
    /\ get_input_format(secure_filename(call.arg)).val = "docx"

====
